---- MODULE Spec2Model ----
(***************************************************************************)
(* Alignment engine (global, dovetail, banded) and lattice folding search  *)
(* drivers (genetic, hill climbing, simulated annealing) of the alignment  *)
(* visualizer, modelled from the TypeScript sources.                       *)
(***************************************************************************)
EXTENDS Integers, Sequences, FiniteSets, TLC

VARIABLES form, result, sequences, algorithm, bandwidth, pc,
          currentStep, isPlaying, showStepVisualizer, visualizerStep,
          engine, fold, returned, seen

viewVars == <<currentStep, isPlaying, showStepVisualizer, visualizerStep>>
alignVars == <<form, result, sequences, algorithm, bandwidth, pc,
               currentStep, isPlaying, showStepVisualizer, visualizerStep>>
foldVars == <<engine, fold, returned, seen>>
vars == <<form, result, sequences, algorithm, bandwidth, pc,
          currentStep, isPlaying, showStepVisualizer, visualizerStep,
          engine, fold, returned, seen>>

(***************************************************************************)
(* Bounds of the model.                                                    *)
(***************************************************************************)
MaxLen == 3

Alphabet == {"A", "C"}

RECURSIVE SeqsOfLen(_)
SeqsOfLen(n) ==
  IF n = 0 THEN {<<>>}
  ELSE {Append(s, c) : s \in SeqsOfLen(n - 1), c \in Alphabet}

\* non-empty sequences (the caller's validation rejects empty ones)
InputSeqs == UNION {SeqsOfLen(n) : n \in 1..MaxLen}

Scorings ==
  { [match |-> 1, mismatch |-> -1, gapPenalty |-> -2],
    [match |-> 1, mismatch |-> -3, gapPenalty |-> -1],
    [match |-> 2, mismatch |-> -1, gapPenalty |-> 1],
    [match |-> 1, mismatch |-> -1, gapPenalty |-> 0],
    [match |-> -1, mismatch |-> 1, gapPenalty |-> -1] }

Bandwidths == 0..(MaxLen + 1)

Algorithms == {"global", "local", "dovetail", "banded"}

(***************************************************************************)
(* types/alignment.ts                                                      *)
(***************************************************************************)
NONE == "none"
DIAGONAL == "diagonal"
UP == "up"
LEFT == "left"

\* JavaScript's -Infinity: below every finite score, absorbing under addition
NegInf == -1000000

Plus(a, b) == IF a = NegInf \/ b = NegInf THEN NegInf ELSE a + b

Max2(a, b) == IF a >= b THEN a ELSE b
Min2(a, b) == IF a <= b THEN a ELSE b

\* Math.max(a, b, c)
Max3(a, b, c) == Max2(a, Max2(b, c))

Abs(x) == IF x < 0 THEN -x ELSE x

\* the length of an array indexed from 0
Length(a) == Cardinality(DOMAIN a)

\* Reverse leaving the order as pushed
Reverse_Kept(s) == s

Reverse(s) == [k \in 1..Len(s) |-> s[Len(s) + 1 - k]]

MarkOnPath(matrix, i, j) ==
  [matrix EXCEPT ![i] = [@ EXCEPT ![j] = [@ EXCEPT !.isOnPath = TRUE]]]

SetCell(matrix, i, j, sc, dir) ==
  [matrix EXCEPT ![i] = [@ EXCEPT ![j] = [@ EXCEPT !.score = sc, !.direction = dir]]]

\* PickDirection testing the up candidate before the diagonal one
PickDirection_UpFirst(maxScore, diagonalScore, upScore) ==
  IF maxScore = upScore THEN UP
  ELSE IF maxScore = diagonalScore THEN DIAGONAL
  ELSE LEFT

\* the if / else-if chain that picks the direction of a filled cell
PickDirection(maxScore, diagonalScore, upScore) ==
  IF maxScore = diagonalScore THEN DIAGONAL
  ELSE IF maxScore = upScore THEN UP
  ELSE LEFT

getMatchScore(char1, char2, params) ==
  IF char1 = char2 THEN params.match ELSE params.mismatch

(***************************************************************************)
(* algorithms/global/needlemanWunsch.ts                                    *)
(***************************************************************************)
GlobalInitializeMatrix(rows, cols, gapPenalty) ==
  [i \in 0..(rows - 1) |-> [j \in 0..(cols - 1) |->
     [score |-> IF j = 0 THEN i * gapPenalty
                ELSE IF i = 0 THEN j * gapPenalty ELSE 0,
      direction |-> IF j = 0 THEN (IF i = 0 THEN NONE ELSE UP)
                    ELSE IF i = 0 THEN LEFT ELSE NONE,
      row |-> i, col |-> j, isOnPath |-> FALSE]]]

\* GlobalFillCell with the left candidate read from the wrong neighbour
GlobalFillCell_LeftFromUp(st, i, j, seq1, seq2, params) ==
  LET matrix == st.matrix
      matchScore == getMatchScore(seq1[i], seq2[j], params)
      diagonalScore == matrix[i - 1][j - 1].score + matchScore
      upScore == matrix[i - 1][j].score + params.gapPenalty
      leftScore == matrix[i - 1][j].score + params.gapPenalty
      maxScore == Max3(diagonalScore, upScore, leftScore)
      direction == PickDirection(maxScore, diagonalScore, upScore)
  IN [matrix |-> SetCell(matrix, i, j, maxScore, direction),
      steps |-> Append(st.steps,
                 [row |-> i, col |-> j, score |-> maxScore, direction |-> direction,
                  cellsConsidered |-> << [source |-> "diagonal", value |-> diagonalScore],
                                         [source |-> "up", value |-> upScore],
                                         [source |-> "left", value |-> leftScore] >>])]

\* one iteration of the inner loop: fills cell (i,j) and pushes its step
GlobalFillCell(st, i, j, seq1, seq2, params) ==
  LET matrix == st.matrix
      matchScore == getMatchScore(seq1[i], seq2[j], params)
      diagonalScore == matrix[i - 1][j - 1].score + matchScore
      upScore == matrix[i - 1][j].score + params.gapPenalty
      leftScore == matrix[i][j - 1].score + params.gapPenalty
      maxScore == Max3(diagonalScore, upScore, leftScore)
      direction == PickDirection(maxScore, diagonalScore, upScore)
  IN [matrix |-> SetCell(matrix, i, j, maxScore, direction),
      steps |-> Append(st.steps,
                 [row |-> i, col |-> j, score |-> maxScore, direction |-> direction,
                  cellsConsidered |-> << [source |-> "diagonal", value |-> diagonalScore],
                                         [source |-> "up", value |-> upScore],
                                         [source |-> "left", value |-> leftScore] >>])]

\* GlobalFillLoop going down the columns: j in the outer loop, i inside
RECURSIVE GlobalFillLoop_ColumnMajor(_, _, _, _, _, _, _, _)
GlobalFillLoop_ColumnMajor(st, i, j, rows, cols, seq1, seq2, params) ==
  IF j >= Length(st.matrix[0]) THEN st
  ELSE IF i >= rows
  THEN GlobalFillLoop_ColumnMajor(st, 1, j + 1, rows, cols, seq1, seq2, params)
  ELSE GlobalFillLoop_ColumnMajor(GlobalFillCell(st, i, j, seq1, seq2, params),
                                  i + 1, j, rows, cols, seq1, seq2, params)

\* lines 76-128: for i = 1..rows - 1, for j = 1..cols - 1
RECURSIVE GlobalFillLoop(_, _, _, _, _, _, _, _)
GlobalFillLoop(st, i, j, rows, cols, seq1, seq2, params) ==
  IF i >= Length(st.matrix) THEN st
  ELSE IF j >= cols THEN GlobalFillLoop(st, i + 1, 1, rows, cols, seq1, seq2, params)
  ELSE GlobalFillLoop(GlobalFillCell(st, i, j, seq1, seq2, params),
                      i, j + 1, rows, cols, seq1, seq2, params)

GlobalFillMatrix(matrix, rows, cols, seq1, seq2, params) ==
  GlobalFillLoop([matrix |-> matrix, steps |-> <<>>], 1, 1, rows, cols, seq1, seq2, params)

\* the while loop of traceback; t = [matrix, i, j, alignedSeq1, alignedSeq2, path]
RECURSIVE GlobalTracebackLoop(_, _, _)
GlobalTracebackLoop(t, seq1, seq2) ==
  IF ~(t.i > 0 \/ t.j > 0) THEN t
  ELSE
    LET i == t.i
        j == t.j
        direction == t.matrix[i][j].direction
        t1 == [t EXCEPT !.path = Append(@, [row |-> i, col |-> j]),
                        !.matrix = MarkOnPath(@, i, j)]
    IN IF direction = DIAGONAL THEN
         GlobalTracebackLoop([t1 EXCEPT !.alignedSeq1 = <<seq1[i]>> \o @,
                                        !.alignedSeq2 = <<seq2[j]>> \o @,
                                        !.i = i - 1, !.j = j - 1], seq1, seq2)
       ELSE IF direction = UP THEN
         GlobalTracebackLoop([t1 EXCEPT !.alignedSeq1 = <<seq1[i]>> \o @,
                                        !.alignedSeq2 = <<"-">> \o @,
                                        !.i = i - 1], seq1, seq2)
       ELSE IF direction = LEFT THEN
         GlobalTracebackLoop([t1 EXCEPT !.alignedSeq1 = <<"-">> \o @,
                                        !.alignedSeq2 = <<seq2[j]>> \o @,
                                        !.j = j - 1], seq1, seq2)
       ELSE t1

\* GlobalTraceback without the origin pushed after the loop
GlobalTraceback_NoOrigin(matrix, rows, cols, seq1, seq2) ==
  LET t == GlobalTracebackLoop([matrix |-> matrix, i |-> rows - 1, j |-> cols - 1,
                                alignedSeq1 |-> <<>>, alignedSeq2 |-> <<>>,
                                path |-> <<>>], seq1, seq2)
  IN [matrix |-> t.matrix,
      alignedSeq1 |-> t.alignedSeq1, alignedSeq2 |-> t.alignedSeq2,
      path |-> Reverse(t.path),
      endRow |-> t.i, endCol |-> t.j]

GlobalTraceback(matrix, rows, cols, seq1, seq2) ==
  LET t == GlobalTracebackLoop([matrix |-> matrix, i |-> rows - 1, j |-> cols - 1,
                                alignedSeq1 |-> <<>>, alignedSeq2 |-> <<>>,
                                path |-> <<>>], seq1, seq2)
  IN [matrix |-> MarkOnPath(t.matrix, 0, 0),
      alignedSeq1 |-> t.alignedSeq1, alignedSeq2 |-> t.alignedSeq2,
      path |-> Reverse(Append(t.path, [row |-> 0, col |-> 0])),
      endRow |-> t.i, endCol |-> t.j]

globalAlignment(seq1, seq2, params) ==
  LET rows == Len(seq1) + 1
      cols == Len(seq2) + 1
      matrix == GlobalInitializeMatrix(rows, cols, params.gapPenalty)
      filled == GlobalFillMatrix(matrix, rows, cols, seq1, seq2, params)
      tb == GlobalTraceback(filled.matrix, rows, cols, seq1, seq2)
  IN [matrix |-> tb.matrix,
      alignedSeq1 |-> tb.alignedSeq1,
      alignedSeq2 |-> tb.alignedSeq2,
      score |-> tb.matrix[rows - 1][cols - 1].score,
      path |-> tb.path,
      steps |-> filled.steps]

(***************************************************************************)
(* algorithms/local (Smith-Waterman local alignment)                       *)
(***************************************************************************)
\* Math.max(0, a, b, c)
Max4Zero(a, b, c) == Max2(0, Max3(a, b, c))

\* all zeros, every direction NONE
LocalInitializeMatrix(rows, cols) ==
  [i \in 0..(rows - 1) |-> [j \in 0..(cols - 1) |->
     [score |-> 0, direction |-> NONE, row |-> i, col |-> j, isOnPath |-> FALSE]]]

\* the direction chain of the local fill: the zero test comes first
LocalPickDirection(maxScore, diagonalScore, upScore) ==
  IF maxScore = 0 THEN NONE
  ELSE PickDirection(maxScore, diagonalScore, upScore)

\* LocalFilled moving maxCell on a tie too
LocalFilled_LastMax(st, i, j, diagonalScore, upScore, leftScore, maxScore) ==
  [matrix |-> SetCell(st.matrix, i, j, maxScore,
                      LocalPickDirection(maxScore, diagonalScore, upScore)),
   maxCell |-> IF maxScore >= st.maxCell.score
               THEN [row |-> i, col |-> j, score |-> maxScore]
               ELSE st.maxCell,
   steps |-> Append(st.steps,
              [row |-> i, col |-> j, score |-> maxScore,
               direction |-> LocalPickDirection(maxScore, diagonalScore, upScore),
               cellsConsidered |-> << [source |-> "diagonal", value |-> diagonalScore],
                                      [source |-> "up", value |-> upScore],
                                      [source |-> "left", value |-> leftScore],
                                      [source |-> "zero", value |-> 0] >>])]

\* the record LocalFillCell builds from the three candidates and the score
LocalFilled(st, i, j, diagonalScore, upScore, leftScore, maxScore) ==
  [matrix |-> SetCell(st.matrix, i, j, maxScore,
                      LocalPickDirection(maxScore, diagonalScore, upScore)),
   maxCell |-> IF maxScore > st.maxCell.score
               THEN [row |-> i, col |-> j, score |-> maxScore]
               ELSE st.maxCell,
   steps |-> Append(st.steps,
              [row |-> i, col |-> j, score |-> maxScore,
               direction |-> LocalPickDirection(maxScore, diagonalScore, upScore),
               cellsConsidered |-> << [source |-> "diagonal", value |-> diagonalScore],
                                      [source |-> "up", value |-> upScore],
                                      [source |-> "left", value |-> leftScore],
                                      [source |-> "zero", value |-> 0] >>])]

\* LocalFillCell without the zero floor
LocalFillCell_NoFloor(st, i, j, seq1, seq2, params) ==
  LET matchScore == getMatchScore(seq1[i], seq2[j], params)
      diagonalScore == st.matrix[i - 1][j - 1].score + matchScore
      upScore == st.matrix[i - 1][j].score + params.gapPenalty
      leftScore == st.matrix[i][j - 1].score + params.gapPenalty
  IN LocalFilled(st, i, j, diagonalScore, upScore, leftScore,
                 Max3(diagonalScore, upScore, leftScore))

\* one iteration of the inner loop of the local fillMatrix
LocalFillCell(st, i, j, seq1, seq2, params) ==
  LET matchScore == getMatchScore(seq1[i], seq2[j], params)
      diagonalScore == st.matrix[i - 1][j - 1].score + matchScore
      upScore == st.matrix[i - 1][j].score + params.gapPenalty
      leftScore == st.matrix[i][j - 1].score + params.gapPenalty
  IN LocalFilled(st, i, j, diagonalScore, upScore, leftScore,
                 Max4Zero(diagonalScore, upScore, leftScore))

RECURSIVE LocalFillLoop(_, _, _, _, _, _, _, _)
LocalFillLoop(st, i, j, rows, cols, seq1, seq2, params) ==
  IF i >= Length(st.matrix) THEN st
  ELSE IF j >= cols THEN LocalFillLoop(st, i + 1, 1, rows, cols, seq1, seq2, params)
  ELSE LocalFillLoop(LocalFillCell(st, i, j, seq1, seq2, params),
                     i, j + 1, rows, cols, seq1, seq2, params)

LocalFillMatrix(matrix, rows, cols, seq1, seq2, params) ==
  LocalFillLoop([matrix |-> matrix, steps |-> <<>>,
                 maxCell |-> [row |-> 0, col |-> 0, score |-> 0]],
                1, 1, rows, cols, seq1, seq2, params)

\* the while loop of the local traceback; t as in GlobalTracebackLoop
RECURSIVE LocalTracebackLoop(_, _, _)
LocalTracebackLoop(t, seq1, seq2) ==
  IF ~(t.i > 0 /\ t.j > 0 /\ t.matrix[t.i][t.j].score > 0) THEN t
  ELSE
    LET i == t.i
        j == t.j
        direction == t.matrix[i][j].direction
        t1 == [t EXCEPT !.path = Append(@, [row |-> i, col |-> j]),
                        !.matrix = MarkOnPath(@, i, j)]
    IN IF direction = DIAGONAL THEN
         LocalTracebackLoop([t1 EXCEPT !.alignedSeq1 = <<seq1[i]>> \o @,
                                       !.alignedSeq2 = <<seq2[j]>> \o @,
                                       !.i = i - 1, !.j = j - 1], seq1, seq2)
       ELSE IF direction = UP THEN
         LocalTracebackLoop([t1 EXCEPT !.alignedSeq1 = <<seq1[i]>> \o @,
                                       !.alignedSeq2 = <<"-">> \o @,
                                       !.i = i - 1], seq1, seq2)
       ELSE IF direction = LEFT THEN
         LocalTracebackLoop([t1 EXCEPT !.alignedSeq1 = <<"-">> \o @,
                                       !.alignedSeq2 = <<seq2[j]>> \o @,
                                       !.j = j - 1], seq1, seq2)
       ELSE t1

LocalTraceback(matrix, seq1, seq2, startCell) ==
  LET t == LocalTracebackLoop([matrix |-> matrix, i |-> startCell.row, j |-> startCell.col,
                               alignedSeq1 |-> <<>>, alignedSeq2 |-> <<>>,
                               path |-> <<>>], seq1, seq2)
  IN [matrix |-> t.matrix,
      alignedSeq1 |-> t.alignedSeq1, alignedSeq2 |-> t.alignedSeq2,
      path |-> Reverse(t.path)]

localAlignment(seq1, seq2, params) ==
  LET rows == Len(seq1) + 1
      cols == Len(seq2) + 1
      matrix == LocalInitializeMatrix(rows, cols)
      filled == LocalFillMatrix(matrix, rows, cols, seq1, seq2, params)
      tb == LocalTraceback(filled.matrix, seq1, seq2, filled.maxCell)
  IN [matrix |-> tb.matrix,
      alignedSeq1 |-> tb.alignedSeq1,
      alignedSeq2 |-> tb.alignedSeq2,
      score |-> filled.maxCell.score,
      path |-> tb.path,
      steps |-> filled.steps]

(***************************************************************************)
(* algorithms/banded (banded alignment)                                    *)
(***************************************************************************)
\* isInBand with a strict comparison
isInBand_Strict(row, col, bw) == Abs(row - col) < bw

isInBand(row, col, bw) == Abs(row - col) <= bw

BandedInitializeMatrix(rows, cols, gapPenalty, bw) ==
  [i \in 0..(rows - 1) |-> [j \in 0..(cols - 1) |->
     [score |-> IF j = 0 /\ i <= bw THEN i * gapPenalty
                ELSE IF i = 0 /\ j <= bw THEN j * gapPenalty
                ELSE IF isInBand(i, j, bw) THEN 0 ELSE NegInf,
      direction |-> IF j = 0 /\ i <= bw THEN (IF i = 0 THEN NONE ELSE UP)
                    ELSE IF i = 0 /\ j <= bw THEN LEFT ELSE NONE,
      row |-> i, col |-> j, isOnPath |-> FALSE]]]

\* BandedFillCell scoring a neighbour outside the band as 0
BandedFillCell_ZeroOutside(st, i, j, seq1, seq2, params) ==
  LET matrix == st.matrix
      bw == params.bandwidth
      matchScore == getMatchScore(seq1[i], seq2[j], params)
      diagonalScore == IF isInBand(i - 1, j - 1, bw)
                       THEN Plus(matrix[i - 1][j - 1].score, matchScore) ELSE 0
      upScore == IF isInBand(i - 1, j, bw)
                 THEN Plus(matrix[i - 1][j].score, params.gapPenalty) ELSE 0
      leftScore == IF isInBand(i, j - 1, bw)
                   THEN Plus(matrix[i][j - 1].score, params.gapPenalty) ELSE 0
      maxScore == Max3(diagonalScore, upScore, leftScore)
      direction == PickDirection(maxScore, diagonalScore, upScore)
      cellsConsidered ==
        (IF isInBand(i - 1, j - 1, bw)
         THEN << [source |-> "diagonal", value |-> diagonalScore] >> ELSE <<>>)
        \o (IF isInBand(i - 1, j, bw)
            THEN << [source |-> "up", value |-> upScore] >> ELSE <<>>)
        \o (IF isInBand(i, j - 1, bw)
            THEN << [source |-> "left", value |-> leftScore] >> ELSE <<>>)
  IN [matrix |-> SetCell(matrix, i, j, maxScore, direction),
      steps |-> Append(st.steps,
                 [row |-> i, col |-> j, score |-> maxScore, direction |-> direction,
                  cellsConsidered |-> cellsConsidered])]

\* lines 311-378: one cell of the band
BandedFillCell(st, i, j, seq1, seq2, params) ==
  LET matrix == st.matrix
      bw == params.bandwidth
      matchScore == getMatchScore(seq1[i], seq2[j], params)
      diagonalScore == IF isInBand(i - 1, j - 1, bw)
                       THEN Plus(matrix[i - 1][j - 1].score, matchScore) ELSE NegInf
      upScore == IF isInBand(i - 1, j, bw)
                 THEN Plus(matrix[i - 1][j].score, params.gapPenalty) ELSE NegInf
      leftScore == IF isInBand(i, j - 1, bw)
                   THEN Plus(matrix[i][j - 1].score, params.gapPenalty) ELSE NegInf
      maxScore == Max3(diagonalScore, upScore, leftScore)
      direction == PickDirection(maxScore, diagonalScore, upScore)
      cellsConsidered ==
        (IF isInBand(i - 1, j - 1, bw)
         THEN << [source |-> "diagonal", value |-> diagonalScore] >> ELSE <<>>)
        \o (IF isInBand(i - 1, j, bw)
            THEN << [source |-> "up", value |-> upScore] >> ELSE <<>>)
        \o (IF isInBand(i, j - 1, bw)
            THEN << [source |-> "left", value |-> leftScore] >> ELSE <<>>)
  IN [matrix |-> SetCell(matrix, i, j, maxScore, direction),
      steps |-> Append(st.steps,
                 [row |-> i, col |-> j, score |-> maxScore, direction |-> direction,
                  cellsConsidered |-> cellsConsidered])]

\* j runs from jStart = max(1, i - bw) to jEnd = min(cols - 1, i + bw)
RECURSIVE BandedFillLoop(_, _, _, _, _, _, _, _)
BandedFillLoop(st, i, j, rows, cols, seq1, seq2, params) ==
  IF i >= Length(st.matrix) THEN st
  ELSE IF j > (IF cols - 1 <= i + params.bandwidth THEN cols - 1 ELSE i + params.bandwidth)
  THEN BandedFillLoop(st, i + 1, Max2(1, i + 1 - params.bandwidth),
                      rows, cols, seq1, seq2, params)
  ELSE IF ~isInBand(i, j, params.bandwidth)
  THEN BandedFillLoop(st, i, j + 1, rows, cols, seq1, seq2, params)
  ELSE BandedFillLoop(BandedFillCell(st, i, j, seq1, seq2, params),
                      i, j + 1, rows, cols, seq1, seq2, params)

BandedFillMatrix(matrix, rows, cols, seq1, seq2, params) ==
  BandedFillLoop([matrix |-> matrix, steps |-> <<>>], 1, Max2(1, 1 - params.bandwidth),
                 rows, cols, seq1, seq2, params)

\* same loop as the global traceback; warned = the console.warn of an
\* end point outside the band
BandedTraceback(matrix, rows, cols, seq1, seq2, bw) ==
  LET t == GlobalTracebackLoop([matrix |-> matrix, i |-> rows - 1, j |-> cols - 1,
                                alignedSeq1 |-> <<>>, alignedSeq2 |-> <<>>,
                                path |-> <<>>], seq1, seq2)
  IN [matrix |-> MarkOnPath(t.matrix, 0, 0),
      alignedSeq1 |-> t.alignedSeq1, alignedSeq2 |-> t.alignedSeq2,
      path |-> Reverse(Append(t.path, [row |-> 0, col |-> 0])),
      endRow |-> t.i, endCol |-> t.j,
      warned |-> ~isInBand(rows - 1, cols - 1, bw)]

\* EffectiveBandwidth without the widening to the length difference
EffectiveBandwidth_Nominal(seq1, seq2, k) == k

EffectiveBandwidth(seq1, seq2, k) == Max2(k, Abs(Len(seq1) - Len(seq2)))

bandedAlignment(seq1, seq2, params) ==
  LET rows == Len(seq1) + 1
      cols == Len(seq2) + 1
      effectiveBandwidth == EffectiveBandwidth(seq1, seq2, params.bandwidth)
      matrix == BandedInitializeMatrix(rows, cols, params.gapPenalty, effectiveBandwidth)
      filled == BandedFillMatrix(matrix, rows, cols, seq1, seq2,
                                 [params EXCEPT !.bandwidth = effectiveBandwidth])
      tb == BandedTraceback(filled.matrix, rows, cols, seq1, seq2, effectiveBandwidth)
  IN [matrix |-> tb.matrix,
      alignedSeq1 |-> tb.alignedSeq1,
      alignedSeq2 |-> tb.alignedSeq2,
      score |-> tb.matrix[rows - 1][cols - 1].score,
      path |-> tb.path,
      steps |-> filled.steps]

(***************************************************************************)
(* algorithms/dovetail/dovetailAlignment.ts                                *)
(***************************************************************************)
DovetailInitializeMatrix(rows, cols) ==
  [i \in 0..(rows - 1) |-> [j \in 0..(cols - 1) |->
     [score |-> 0,
      direction |-> IF j = 0 THEN (IF i = 0 THEN NONE ELSE UP)
                    ELSE IF i = 0 THEN LEFT ELSE NONE,
      row |-> i, col |-> j, isOnPath |-> FALSE]]]

\* DovetailFillCell that never awards the match score on the diagonal
DovetailFillCell_NoMatch(st, i, j, seq1, seq2, params) ==
  LET matrix == st.matrix
      matchScore == params.mismatch
      diagonalScore == matrix[i - 1][j - 1].score + matchScore
      upScore == matrix[i - 1][j].score + params.gapPenalty
      leftScore == matrix[i][j - 1].score + params.gapPenalty
      maxScore == Max3(diagonalScore, upScore, leftScore)
      direction == PickDirection(maxScore, diagonalScore, upScore)
  IN [matrix |-> SetCell(matrix, i, j, maxScore, direction),
      steps |-> Append(st.steps,
                 [row |-> i, col |-> j, score |-> maxScore, direction |-> direction,
                  cellsConsidered |-> << [source |-> "diagonal", value |-> diagonalScore],
                                         [source |-> "up", value |-> upScore],
                                         [source |-> "left", value |-> leftScore] >>])]

DovetailFillCell(st, i, j, seq1, seq2, params) ==
  LET matrix == st.matrix
      matchScore == getMatchScore(seq1[i], seq2[j], params)
      diagonalScore == matrix[i - 1][j - 1].score + matchScore
      upScore == matrix[i - 1][j].score + params.gapPenalty
      leftScore == matrix[i][j - 1].score + params.gapPenalty
      maxScore == Max3(diagonalScore, upScore, leftScore)
      direction == PickDirection(maxScore, diagonalScore, upScore)
  IN [matrix |-> SetCell(matrix, i, j, maxScore, direction),
      steps |-> Append(st.steps,
                 [row |-> i, col |-> j, score |-> maxScore, direction |-> direction,
                  cellsConsidered |-> << [source |-> "diagonal", value |-> diagonalScore],
                                         [source |-> "up", value |-> upScore],
                                         [source |-> "left", value |-> leftScore] >>])]

RECURSIVE DovetailFillLoop(_, _, _, _, _, _, _, _)
DovetailFillLoop(st, i, j, rows, cols, seq1, seq2, params) ==
  IF i >= Length(st.matrix) THEN st
  ELSE IF j >= cols THEN DovetailFillLoop(st, i + 1, 1, rows, cols, seq1, seq2, params)
  ELSE DovetailFillLoop(DovetailFillCell(st, i, j, seq1, seq2, params),
                        i, j + 1, rows, cols, seq1, seq2, params)

DovetailFillMatrix(matrix, rows, cols, seq1, seq2, params) ==
  DovetailFillLoop([matrix |-> matrix, steps |-> <<>>], 1, 1, rows, cols, seq1, seq2, params)

\* scan of the last row (j = 0..cols-1), strict > keeps the earlier best
RECURSIVE BestInLastRow(_, _, _, _, _)
BestInLastRow(matrix, rows, cols, j, bestCell) ==
  IF j >= cols THEN bestCell
  ELSE BestInLastRow(matrix, rows, cols, j + 1,
         IF matrix[rows - 1][j].score > bestCell.score
         THEN [row |-> rows - 1, col |-> j, score |-> matrix[rows - 1][j].score]
         ELSE bestCell)

\* scan of the last column (i = 0..rows-1)
RECURSIVE BestInLastCol(_, _, _, _, _)
BestInLastCol(matrix, rows, cols, i, bestCell) ==
  IF i >= rows THEN bestCell
  ELSE BestInLastCol(matrix, rows, cols, i + 1,
         IF matrix[i][cols - 1].score > bestCell.score
         THEN [row |-> i, col |-> cols - 1, score |-> matrix[i][cols - 1].score]
         ELSE bestCell)

\* findBestEndCell starting from the first cell of the last row
findBestEndCell_FromRowStart(matrix, rows, cols) ==
  BestInLastCol(matrix, rows, cols, 0,
    BestInLastRow(matrix, rows, cols, 0,
      [row |-> rows - 1, col |-> 0, score |-> matrix[rows - 1][0].score]))

findBestEndCell(matrix, rows, cols) ==
  BestInLastCol(matrix, rows, cols, 0,
    BestInLastRow(matrix, rows, cols, 0,
      [row |-> rows - 1, col |-> cols - 1, score |-> matrix[rows - 1][cols - 1].score]))

\* trailing gaps for the rest of seq1: k = rows-1 down to i+1
RECURSIVE TrailingSeq1(_, _, _, _)
TrailingSeq1(t, seq1, k, i) ==
  IF k <= i THEN t
  ELSE TrailingSeq1([t EXCEPT !.alignedSeq1 = <<seq1[k]>> \o @,
                              !.alignedSeq2 = <<"-">> \o @,
                              !.trailing = @ + 1], seq1, k - 1, i)

\* TrailingSeq2 without the gap character in the first row
RECURSIVE TrailingSeq2_NoGap(_, _, _, _)
TrailingSeq2_NoGap(t, seq2, k, j) ==
  IF k <= j THEN t
  ELSE TrailingSeq2_NoGap([t EXCEPT !.alignedSeq2 = <<seq2[k]>> \o @,
                                    !.trailing = @ + 1], seq2, k - 1, j)

\* trailing gaps for the rest of seq2: k = cols-1 down to j+1
RECURSIVE TrailingSeq2(_, _, _, _)
TrailingSeq2(t, seq2, k, j) ==
  IF k <= j THEN t
  ELSE TrailingSeq2([t EXCEPT !.alignedSeq1 = <<"-">> \o @,
                              !.alignedSeq2 = <<seq2[k]>> \o @,
                              !.trailing = @ + 1], seq2, k - 1, j)

\* "Standard traceback": while (i > 0 && j > 0)
RECURSIVE DovetailInnerLoop(_, _, _)
DovetailInnerLoop(t, seq1, seq2) ==
  IF ~(t.i > 0 /\ t.j > 0) THEN t
  ELSE
    LET i == t.i
        j == t.j
        direction == t.matrix[i][j].direction
        t1 == [t EXCEPT !.path = Append(@, [row |-> i, col |-> j]),
                        !.matrix = MarkOnPath(@, i, j),
                        !.inner = @ + 1]
    IN IF direction = DIAGONAL THEN
         DovetailInnerLoop([t1 EXCEPT !.alignedSeq1 = <<seq1[i]>> \o @,
                                      !.alignedSeq2 = <<seq2[j]>> \o @,
                                      !.i = i - 1, !.j = j - 1], seq1, seq2)
       ELSE IF direction = UP THEN
         DovetailInnerLoop([t1 EXCEPT !.alignedSeq1 = <<seq1[i]>> \o @,
                                      !.alignedSeq2 = <<"-">> \o @,
                                      !.i = i - 1], seq1, seq2)
       ELSE
         DovetailInnerLoop([t1 EXCEPT !.alignedSeq1 = <<"-">> \o @,
                                      !.alignedSeq2 = <<seq2[j]>> \o @,
                                      !.j = j - 1], seq1, seq2)

\* leading gaps: while (i > 0) ... while (j > 0)
RECURSIVE DovetailLeadingLoop(_, _, _)
DovetailLeadingLoop(t, seq1, seq2) ==
  IF t.i > 0 THEN
    DovetailLeadingLoop([t EXCEPT !.alignedSeq1 = <<seq1[t.i]>> \o @,
                                  !.alignedSeq2 = <<"-">> \o @,
                                  !.path = Append(@, [row |-> t.i, col |-> 0]),
                                  !.matrix = MarkOnPath(@, t.i, 0),
                                  !.leading = @ + 1,
                                  !.i = @ - 1], seq1, seq2)
  ELSE IF t.j > 0 THEN
    DovetailLeadingLoop([t EXCEPT !.alignedSeq1 = <<"-">> \o @,
                                  !.alignedSeq2 = <<seq2[t.j]>> \o @,
                                  !.path = Append(@, [row |-> 0, col |-> t.j]),
                                  !.matrix = MarkOnPath(@, 0, t.j),
                                  !.leading = @ + 1,
                                  !.j = @ - 1], seq1, seq2)
  ELSE t

\* trailing / inner / leading count the alignment columns each phase wrote
DovetailTraceback(matrix, rows, cols, seq1, seq2, startCell) ==
  LET t0 == [matrix |-> matrix, i |-> startCell.row, j |-> startCell.col,
             alignedSeq1 |-> <<>>, alignedSeq2 |-> <<>>, path |-> <<>>,
             trailing |-> 0, inner |-> 0, leading |-> 0]
      t1 == TrailingSeq1(t0, seq1, rows - 1, startCell.row)
      t2 == TrailingSeq2(t1, seq2, cols - 1, startCell.col)
      t3 == DovetailInnerLoop(t2, seq1, seq2)
      t4 == DovetailLeadingLoop(t3, seq1, seq2)
  IN [matrix |-> MarkOnPath(t4.matrix, 0, 0),
      alignedSeq1 |-> t4.alignedSeq1, alignedSeq2 |-> t4.alignedSeq2,
      path |-> Reverse(Append(t4.path, [row |-> 0, col |-> 0])),
      trailing |-> t4.trailing, inner |-> t4.inner, leading |-> t4.leading]

\* dovetailAlignment returning the corner's score, as global alignment does
dovetailAlignment_CornerScore(seq1, seq2, params) ==
  LET rows == Len(seq1) + 1
      cols == Len(seq2) + 1
      matrix == DovetailInitializeMatrix(rows, cols)
      filled == DovetailFillMatrix(matrix, rows, cols, seq1, seq2, params)
      bestEndCell == findBestEndCell(filled.matrix, rows, cols)
      tb == DovetailTraceback(filled.matrix, rows, cols, seq1, seq2, bestEndCell)
  IN [matrix |-> tb.matrix,
      alignedSeq1 |-> tb.alignedSeq1,
      alignedSeq2 |-> tb.alignedSeq2,
      score |-> tb.matrix[rows - 1][cols - 1].score,
      path |-> tb.path,
      steps |-> filled.steps]

dovetailAlignment(seq1, seq2, params) ==
  LET rows == Len(seq1) + 1
      cols == Len(seq2) + 1
      matrix == DovetailInitializeMatrix(rows, cols)
      filled == DovetailFillMatrix(matrix, rows, cols, seq1, seq2, params)
      bestEndCell == findBestEndCell(filled.matrix, rows, cols)
      tb == DovetailTraceback(filled.matrix, rows, cols, seq1, seq2, bestEndCell)
  IN [matrix |-> tb.matrix,
      alignedSeq1 |-> tb.alignedSeq1,
      alignedSeq2 |-> tb.alignedSeq2,
      score |-> bestEndCell.score,
      path |-> tb.path,
      steps |-> filled.steps]

\* the columns written by each phase of the dovetail traceback
DovetailPhases(seq1, seq2, params) ==
  LET rows == Len(seq1) + 1
      cols == Len(seq2) + 1
      filled == DovetailFillMatrix(DovetailInitializeMatrix(rows, cols),
                                   rows, cols, seq1, seq2, params)
      bestEndCell == findBestEndCell(filled.matrix, rows, cols)
      tb == DovetailTraceback(filled.matrix, rows, cols, seq1, seq2, bestEndCell)
  IN [trailing |-> tb.trailing, inner |-> tb.inner, leading |-> tb.leading,
      bestEndCell |-> bestEndCell]

(***************************************************************************)
(* algorithms/proteinFolding: the seeded generator                         *)
(*                                                                         *)
(* The generator state is an unsigned 32-bit integer, kept as two 16-bit   *)
(* halves [hi, lo] so that every intermediate product stays in range.      *)
(* A draw rand() = value / 0xffffffff is represented by the value itself.  *)
(***************************************************************************)
B16 == 65536

\* const v = ...: Op applied to a value that is computed once
Bind(v, Op(_)) == Op(v)

CharCode(ch) ==
  CASE ch = "A" -> 65 [] ch = "C" -> 67 [] ch = "H" -> 72
    [] ch = "L" -> 76 [] ch = "N" -> 78 [] ch = "P" -> 80
    [] ch = "a" -> 97 [] ch = "e" -> 101 [] ch = "h" -> 104
    [] ch = "i" -> 105 [] ch = "l" -> 108 [] ch = "n" -> 110

\* value = (value * 31 + seed.charCodeAt(i)) >>> 0
HashStep(value, code) ==
  LET p == value.lo * 31 + code
  IN [hi |-> (value.hi * 31 + (p \div B16)) % B16, lo |-> p % B16]

\* for (let i = 0; i < seed.length; i++), st = [value, i]
RECURSIVE HashLoop(_, _)
HashLoop(st, seed) ==
  IF ~(st.i < Len(seed)) THEN st.value
  ELSE HashLoop([value |-> HashStep(st.value, CharCode(seed[st.i + 1])),
                 i |-> st.i + 1], seed)

\* the loop from the k-th character of the seed on
HashFrom(value, seed, k) == HashLoop([value |-> value, i |-> k - 1], seed)

\* a generator whose value outlives the run: hashing starts from what the
\* previous run left behind instead of 0
seededRandom_Leaky(seed) == HashFrom(fold.rng, seed, 1)

\* let value = 0; then the hash loop over the seed string
seededRandom(seed) == HashFrom([hi |-> 0, lo |-> 0], seed, 1)

\* value = (value * 1664525 + 1013904223) >>> 0
\* 1664525 = 25 * 2^16 + 26125, 1013904223 = 15470 * 2^16 + 62303
LcgNext(value) ==
  LET p == value.lo * 26125 + 62303
      q == (p \div B16) + value.hi * 26125 + value.lo * 25 + 15470
  IN [hi |-> q % B16, lo |-> p % B16]

\* rand() * n as q + fraction: q = floor(value * n / 0xffffffff) and
\* exact <=> the fraction is 0
RandTimes(value, n) ==
  LET t0 == value.lo * n
      a0 == t0 % B16
      t1 == value.hi * n + (t0 \div B16)
      a1 == t1 % B16
      qp == t1 \div B16
      s0 == a0 + qp
      b0 == s0 % B16
      s1 == a1 + (s0 \div B16)
      b1 == s1 % B16
  IN IF s1 \div B16 = 1 THEN [q |-> qp + 1, exact |-> FALSE]
     ELSE IF b1 = B16 - 1 /\ b0 = B16 - 1 THEN [q |-> qp + 1, exact |-> TRUE]
     ELSE [q |-> qp, exact |-> (b1 = 0 /\ b0 = 0)]

\* Math.floor(rand() * n)
FloorRandTimes(value, n) == RandTimes(value, n).q

\* rand() * total - c <= 0, the test of the roulette loops
RandTimesAtMost(value, total, c) ==
  LET r == RandTimes(value, total)
  IN r.q < c \/ (r.q = c /\ r.exact)

\* rand() - 0.5 < 0  <=>  value <= 0x7fffffff
RandBelowHalf(value) == value.hi < 32768

(***************************************************************************)
(* Array.prototype.sort with the comparator () => rand() - 0.5.  The       *)
(* comparator is not consistent, so the order and the number of draws are  *)
(* implementation-defined; they are fixed by the sort of the engine the    *)
(* program runs on.  Two engines: binary insertion after run detection     *)
(* (TimSort on short arrays) and plain insertion sort.                     *)
(***************************************************************************)
SortEngines == {"timsort", "insertion"}

ShuffleTimSort(rng) ==
  LET v1 == LcgNext(rng)
      v2 == LcgNext(v1)
      v3 == LcgNext(v2)
      v4 == LcgNext(v3)
      n1 == RandBelowHalf(v1)
      n2 == RandBelowHalf(v2)
      n3 == RandBelowHalf(v3)
      n4 == RandBelowHalf(v4)
  IN IF n1 /\ n2 THEN [rng |-> v2, order |-> <<"R", "F", "L">>]
     ELSE IF ~n1 /\ ~n2 THEN [rng |-> v2, order |-> <<"L", "F", "R">>]
     ELSE IF n1 THEN
       (IF ~n3 THEN [rng |-> v3, order |-> <<"F", "L", "R">>]
        ELSE IF n4 THEN [rng |-> v4, order |-> <<"R", "F", "L">>]
        ELSE [rng |-> v4, order |-> <<"F", "R", "L">>])
     ELSE
       (IF ~n3 THEN [rng |-> v3, order |-> <<"L", "F", "R">>]
        ELSE IF n4 THEN [rng |-> v4, order |-> <<"R", "L", "F">>]
        ELSE [rng |-> v4, order |-> <<"L", "R", "F">>])

ShuffleInsertion(rng) ==
  LET v1 == LcgNext(rng)
      v2 == LcgNext(v1)
      v3 == LcgNext(v2)
      a == IF RandBelowHalf(v1) THEN <<"L", "F">> ELSE <<"F", "L">>
  IN IF RandBelowHalf(v2) THEN [rng |-> v2, order |-> <<a[1], a[2], "R">>]
     ELSE IF RandBelowHalf(v3) THEN [rng |-> v3, order |-> <<a[1], "R", a[2]>>]
     ELSE [rng |-> v3, order |-> <<"R", a[1], a[2]>>]

\* [...DIRECTIONS].sort(() => rand() - 0.5)
ShuffleDirections(rng) ==
  IF engine = "timsort" THEN ShuffleTimSort(rng) ELSE ShuffleInsertion(rng)

(***************************************************************************)
(* algorithms/proteinFolding: lattice walk primitives (the same code in    *)
(* geneticAlgorithm.ts, hillClimbing.ts and simulatedAnnealing.ts)         *)
(***************************************************************************)
HYDROPHOBIC == {"A", "V", "I", "L", "M", "F", "Y", "W"}

DIRECTIONS == <<"L", "F", "R">>

maxAttempts == 20

rotate(orientation, turn) ==
  IF turn = "L" THEN (orientation + 3) % 4
  ELSE IF turn = "R" THEN (orientation + 1) % 4
  ELSE orientation

stepVector(orientation) ==
  CASE orientation = 0 -> [x |-> 0, y |-> 1]
    [] orientation = 1 -> [x |-> 1, y |-> 0]
    [] orientation = 2 -> [x |-> 0, y |-> -1]
    [] OTHER -> [x |-> -1, y |-> 0]

SeqToSet(s) == {s[k] : k \in 1..Len(s)}

\* the for loop of tracePath from move k on; stops at the first revisit
RECURSIVE TracePathLoop(_, _, _, _)
TracePathLoop(moves, k, positions, orientation) ==
  IF k > Len(moves) THEN [positions |-> positions, valid |-> TRUE]
  ELSE
    Bind(rotate(orientation, moves[k]), LAMBDA o :
      Bind([x |-> positions[Len(positions)].x + stepVector(o).x,
            y |-> positions[Len(positions)].y + stepVector(o).y], LAMBDA next :
        IF next \in SeqToSet(positions)
        THEN [positions |-> positions, valid |-> FALSE]
        ELSE TracePathLoop(moves, k + 1, Append(positions, next), o)))

tracePath(moves) == TracePathLoop(moves, 1, << [x |-> 0, y |-> 0] >>, 0)

hydrophobicMask(sequence) == [k \in 1..Len(sequence) |-> sequence[k] \in HYDROPHOBIC]

\* pairs (i, j), j >= i + 2, both hydrophobic, at Manhattan distance 1
countHHContacts(sequence, positions) ==
  LET mask == hydrophobicMask(sequence)
  IN Cardinality({ij \in (1..Len(positions)) \X (1..Len(positions)) :
       /\ ij[2] >= ij[1] + 2
       /\ mask[ij[1]] /\ mask[ij[2]]
       /\ Abs(positions[ij[1]].x - positions[ij[2]].x)
            + Abs(positions[ij[1]].y - positions[ij[2]].y) = 1})

\* the loop "for (const dir of shuffled)": first direction to a free cell
RECURSIVE FirstFree(_, _, _, _, _)
FirstFree(order, k, orientation, current, visited) ==
  IF k > Len(order) THEN [found |-> FALSE]
  ELSE
    Bind(rotate(orientation, order[k]), LAMBDA nextOrientation :
      Bind([x |-> current.x + stepVector(nextOrientation).x,
            y |-> current.y + stepVector(nextOrientation).y], LAMBDA next :
        IF next \notin visited
        THEN [found |-> TRUE, chosen |-> order[k],
              orientation |-> nextOrientation, current |-> next]
        ELSE FirstFree(order, k + 1, orientation, current, visited)))

\* one attempt of generateValidMoves: the loop over i < movesNeeded
RECURSIVE BuildWalk(_, _, _, _, _, _)
BuildWalk(rng, moves, orientation, current, visited, movesNeeded) ==
  IF Len(moves) >= movesNeeded THEN [rng |-> rng, moves |-> moves, valid |-> TRUE]
  ELSE
    Bind(ShuffleDirections(rng), LAMBDA sh :
      Bind(FirstFree(sh.order, 1, orientation, current, visited), LAMBDA pick :
        IF ~pick.found THEN [rng |-> sh.rng, moves |-> moves, valid |-> FALSE]
        ELSE BuildWalk(sh.rng, Append(moves, pick.chosen), pick.orientation,
                       pick.current, visited \cup {pick.current}, movesNeeded)))

\* StraightWalk with right turns in place of forward steps
StraightWalk_Turning(n) == [k \in 1..n |-> "R"]

\* Array.from({ length: movesNeeded }, () => 'F')
StraightWalk(n) == [k \in 1..n |-> "F"]

RECURSIVE GenerateAttempts(_, _, _)
GenerateAttempts(rng, attempt, movesNeeded) ==
  IF attempt >= maxAttempts
  THEN [rng |-> rng, moves |-> StraightWalk(movesNeeded)]
  ELSE
    Bind(BuildWalk(rng, <<>>, 0, [x |-> 0, y |-> 0], {[x |-> 0, y |-> 0]}, movesNeeded),
         LAMBDA w :
           IF w.valid THEN [rng |-> w.rng, moves |-> w.moves]
           ELSE GenerateAttempts(w.rng, attempt + 1, movesNeeded))

generateValidMoves(length, rng) ==
  IF length <= 1 THEN [rng |-> rng, moves |-> <<>>]
  ELSE GenerateAttempts(rng, 0, length - 1)

\* the retry loop of evaluateCandidate (attempt < 5), then the fallback
RECURSIVE EvaluateAttempts(_, _, _, _)
EvaluateAttempts(sequence, attemptMoves, rng, attempt) ==
  IF attempt >= 5 THEN
    Bind(tracePath(StraightWalk(Max2(0, Len(sequence) - 1))), LAMBDA traced :
      [rng |-> rng,
       cand |-> [moves |-> StraightWalk(Max2(0, Len(sequence) - 1)),
                 positions |-> traced.positions,
                 fitness |-> countHHContacts(sequence, traced.positions)]])
  ELSE
    Bind(tracePath(attemptMoves), LAMBDA traced :
      IF traced.valid /\ Len(traced.positions) = Len(sequence)
      THEN [rng |-> rng,
            cand |-> [moves |-> attemptMoves, positions |-> traced.positions,
                      fitness |-> countHHContacts(sequence, traced.positions)]]
      ELSE Bind(generateValidMoves(Len(sequence), rng), LAMBDA g :
             EvaluateAttempts(sequence, g.moves, g.rng, attempt + 1)))

\* evaluateCandidate without the validity test of line 175
evaluateCandidate_Unchecked(sequence, moves, rng) ==
  Bind(tracePath(moves), LAMBDA traced :
    [rng |-> rng,
     cand |-> [moves |-> moves, positions |-> traced.positions,
               fitness |-> countHHContacts(sequence, traced.positions)]])

evaluateCandidate(sequence, moves, rng) == EvaluateAttempts(sequence, moves, rng, 0)

\* what an array read past its last element gives
UNDEFINED == "undefined"

\* arr[k] for a zero-based k >= 0
ReadAt(arr, k) == IF k < Len(arr) THEN arr[k + 1] ELSE UNDEFINED

\* arr[k] = v for a zero-based k, 0 <= k <= arr.length
WriteAt(arr, k, v) == IF k < Len(arr) THEN [arr EXCEPT ![k + 1] = v] ELSE Append(arr, v)

\* mutateMoves: moves[index] replaced by one of the instructions that differ
\* from it; index = floor(rand() * moves.length), and the instruction is
\* options[floor(rand() * options.length)]
mutateMoves(moves, rng) ==
  IF Len(moves) = 0 THEN [rng |-> rng, moves |-> moves]
  ELSE
    Bind(LcgNext(rng), LAMBDA v1 :
      Bind(FloorRandTimes(v1, Len(moves)), LAMBDA index :
        Bind(SelectSeq(DIRECTIONS, LAMBDA d : d # ReadAt(moves, index)), LAMBDA options :
          Bind(LcgNext(v1), LAMBDA v2 :
            [rng |-> v2,
             moves |-> WriteAt(moves, index,
                               ReadAt(options, FloorRandTimes(v2, Len(options))))]))))

\* const makeCandidate = () => evaluateCandidate(sequence, generateValidMoves(...), rand)
makeCandidate(sequence, rng) ==
  Bind(generateValidMoves(Len(sequence), rng), LAMBDA g :
    evaluateCandidate(sequence, g.moves, g.rng))

(***************************************************************************)
(* hillClimbing.ts: runHillClimbingFolding, one action per loop iteration  *)
(***************************************************************************)
\* no run yet: the generator of a run lives in the closure made by
\* seededRandom and is dropped when the entry point returns
NoFold == [pc |-> "idle", rng |-> [hi |-> 0, lo |-> 0]]

Salt(alg) ==
  CASE alg = "hill-climb" -> <<"h", "i", "l", "l">>
    [] alg = "simulated-annealing" -> <<"a", "n", "n", "e", "a", "l">>
    [] OTHER -> <<>>

\* lines 178-198: seed, first candidate, 'Initialization' step
HillStart(sequence, params) ==
  Bind(makeCandidate(sequence, seededRandom(sequence \o Salt("hill-climb"))), LAMBDA c :
    [pc |-> "running", alg |-> "hill-climb", sequence |-> sequence, params |-> params,
     rng |-> c.rng, iter |-> 0,
     current |-> c.cand, best |-> c.cand, neighbor |-> <<>>, restart |-> <<>>,
     proposal |-> <<>>, base |-> <<>>, result |-> <<>>,
     steps |-> << [title |-> "Initialization", structurePreview |-> c.cand.moves,
                   fitness |-> c.cand.fitness,
                   restartInterval |-> params.restartInterval] >>])

\* TrackBest following current wherever it goes
TrackBest_Latest(best, current) == current

\* best = current when current is strictly fitter
TrackBest(best, current) == IF current.fitness > best.fitness THEN current ELSE best

\* lines 217-229 with the neighbour's fitness in place of best.fitness
HillStep_BestIsNeighbour(iter, current, best, neighbor, isRestart) ==
  [title |-> iter + 1, structurePreview |-> current.moves,
   currentFitness |-> current.fitness, bestSoFar |-> neighbor.fitness,
   movesChanged |-> 1, restartNote |-> isRestart]

\* lines 217-229: steps.push for iteration iter (zero-based)
HillStep(iter, current, best, neighbor, isRestart) ==
  [title |-> iter + 1, structurePreview |-> current.moves,
   currentFitness |-> current.fitness, bestSoFar |-> best.fitness,
   movesChanged |-> 1, restartNote |-> isRestart]

\* HillIterate keeping the neighbour only when it is strictly fitter
HillIterate_StrictAccept(f) ==
  Bind(f.params.restartInterval > 0 /\ f.iter > 0
         /\ f.iter % f.params.restartInterval = 0, LAMBDA isRestart :
  Bind(IF isRestart THEN makeCandidate(f.sequence, f.rng)
       ELSE [rng |-> f.rng, cand |-> f.current], LAMBDA r :
  Bind(IF isRestart /\ r.cand.fitness >= f.current.fitness
       THEN r.cand ELSE f.current, LAMBDA current1 :
  Bind(mutateMoves(current1.moves, r.rng), LAMBDA m :
  Bind(evaluateCandidate(f.sequence, m.moves, m.rng), LAMBDA n :
  Bind(IF n.cand.fitness > current1.fitness THEN n.cand ELSE current1, LAMBDA current2 :
  Bind(TrackBest(f.best, current2), LAMBDA best2 :
    [f EXCEPT !.rng = n.rng, !.iter = f.iter + 1,
              !.current = current2, !.best = best2,
              !.neighbor = <<n.cand>>, !.proposal = m.moves,
              !.base = <<current1>>,
              !.restart = IF isRestart THEN <<r.cand>> ELSE <<>>,
              !.steps = Append(@, HillStep(f.iter, current2, best2, n.cand,
                                           isRestart))])))))))

\* HillIterate taking every restart, whatever its fitness
HillIterate_RestartAlways(f) ==
  Bind(f.params.restartInterval > 0 /\ f.iter > 0
         /\ f.iter % f.params.restartInterval = 0, LAMBDA isRestart :
  Bind(IF isRestart THEN makeCandidate(f.sequence, f.rng)
       ELSE [rng |-> f.rng, cand |-> f.current], LAMBDA r :
  Bind(IF isRestart THEN r.cand ELSE f.current, LAMBDA current1 :
  Bind(mutateMoves(current1.moves, r.rng), LAMBDA m :
  Bind(evaluateCandidate(f.sequence, m.moves, m.rng), LAMBDA n :
  Bind(IF n.cand.fitness >= current1.fitness THEN n.cand ELSE current1, LAMBDA current2 :
  Bind(TrackBest(f.best, current2), LAMBDA best2 :
    [f EXCEPT !.rng = n.rng, !.iter = f.iter + 1,
              !.current = current2, !.best = best2,
              !.neighbor = <<n.cand>>, !.proposal = m.moves,
              !.base = <<current1>>,
              !.restart = IF isRestart THEN <<r.cand>> ELSE <<>>,
              !.steps = Append(@, HillStep(f.iter, current2, best2, n.cand,
                                           isRestart))])))))))

\* lines 200-230: the body of the for loop
HillIterate(f) ==
  Bind(f.params.restartInterval > 0 /\ f.iter > 0
         /\ f.iter % f.params.restartInterval = 0, LAMBDA isRestart :
  Bind(IF isRestart THEN makeCandidate(f.sequence, f.rng)
       ELSE [rng |-> f.rng, cand |-> f.current], LAMBDA r :
  Bind(IF isRestart /\ r.cand.fitness >= f.current.fitness
       THEN r.cand ELSE f.current, LAMBDA current1 :
  Bind(mutateMoves(current1.moves, r.rng), LAMBDA m :
  Bind(evaluateCandidate(f.sequence, m.moves, m.rng), LAMBDA n :
  Bind(IF n.cand.fitness >= current1.fitness THEN n.cand ELSE current1, LAMBDA current2 :
  Bind(TrackBest(f.best, current2), LAMBDA best2 :
    [f EXCEPT !.rng = n.rng, !.iter = f.iter + 1,
              !.current = current2, !.best = best2,
              !.neighbor = <<n.cand>>, !.proposal = m.moves,
              !.base = <<current1>>,
              !.restart = IF isRestart THEN <<r.cand>> ELSE <<>>,
              !.steps = Append(@, HillStep(f.iter, current2, best2, n.cand,
                                           isRestart))])))))))

\* lines 232-249: 'Final Selection' step and the returned FoldingResult
HillFinish(f) ==
  LET steps == Append(f.steps, [title |-> "Final Selection",
                                structurePreview |-> f.best.moves,
                                stability |-> f.best.fitness,
                                iterations |-> f.params.iterations])
  IN [f EXCEPT !.pc = "done", !.steps = steps,
               !.result = << [algorithm |-> "hill-climb",
                              finalStructure |-> f.best.moves,
                              stabilityScore |-> f.best.fitness,
                              steps |-> steps] >>]

(***************************************************************************)
(* simulatedAnnealing.ts: runSimulatedAnnealingFolding                     *)
(***************************************************************************)
\* temperature.toFixed(2) in hundredths after k coolings, startTemperature 6
\* and coolingRate 0.9
TemperatureTable == <<600, 540, 486, 437, 394, 354, 319, 287, 258>>

\* largest 32-bit value v with v / 0xffffffff < Math.exp(delta / T_k), as
\* <<hi, lo>>, for T_k = 6 * 0.9^k (k = 0..8) and delta = -1, -2, -3
AcceptTable ==
  << << <<55475, 1724>>, <<46958, 39056>>, <<39749, 38882>> >>,
     << <<54457, 10796>>, <<45251, 13256>>, <<37601, 33041>> >>,
     << <<53348, 6307>>, <<43426, 53037>>, <<35350, 40002>> >>,
     << <<52142, 17626>>, <<41485, 55253>>, <<33007, 19237>> >>,
     << <<50834, 26220>>, <<39430, 51753>>, <<30585, 21979>> >>,
     << <<49419, 42688>>, <<37266, 37366>>, <<28102, 8234>> >>,
     << <<47893, 54980>>, <<35000, 59807>>, <<25578, 48262>> >>,
     << <<46253, 44517>>, <<32644, 45663>>, <<23039, 53431>> >>,
     << <<44497, 4723>>, <<30212, 15791>>, <<20513, 16296>> >> >>

\* rand() < Math.exp(delta / Math.max(temperature, 1e-6)) for delta <= 0;
\* k coolings have been applied to startTemperature (6, or 0 where the
\* floor 1e-6 makes the exponential underflow to 0 for delta < 0)
MetropolisAccepts(value, delta, startTemperature, k) ==
  IF delta = 0 THEN ~(value.hi = B16 - 1 /\ value.lo = B16 - 1)
  ELSE IF startTemperature = 0 THEN FALSE
  ELSE LET t == AcceptTable[k + 1][-delta]
       IN value.hi < t[1] \/ (value.hi = t[1] /\ value.lo <= t[2])

TemperatureShown(startTemperature, k) ==
  IF startTemperature = 0 THEN 0 ELSE TemperatureTable[k + 1]

\* lines 179-202
AnnealStart(sequence, params) ==
  Bind(makeCandidate(sequence, seededRandom(sequence \o Salt("simulated-annealing"))),
       LAMBDA c :
    [pc |-> "running", alg |-> "simulated-annealing", sequence |-> sequence,
     params |-> params, rng |-> c.rng, iter |-> 0,
     current |-> c.cand, best |-> c.cand, neighbor |-> <<>>,
     proposal |-> <<>>, base |-> <<>>, result |-> <<>>,
     steps |-> << [title |-> "Initialization", structurePreview |-> c.cand.moves,
                   fitness |-> c.cand.fitness,
                   temperature |-> TemperatureShown(params.startTemperature, 0),
                   coolingRate |-> params.coolingRate] >>])

\* lines 204-233: the body of the for loop; rand() is drawn for the
\* Metropolis test only when delta > 0 fails
AnnealIterate(f) ==
  Bind(mutateMoves(f.current.moves, f.rng), LAMBDA m :
  Bind(evaluateCandidate(f.sequence, m.moves, m.rng), LAMBDA n :
  Bind(n.cand.fitness - f.current.fitness, LAMBDA delta :
  Bind(LcgNext(n.rng), LAMBDA v :
  Bind(delta > 0 \/ MetropolisAccepts(v, delta, f.params.startTemperature, f.iter),
       LAMBDA accept :
  Bind(IF accept THEN n.cand ELSE f.current, LAMBDA current2 :
  Bind(TrackBest(f.best, current2), LAMBDA best2 :
    [f EXCEPT !.rng = IF delta > 0 THEN n.rng ELSE v, !.iter = f.iter + 1,
              !.current = current2, !.best = best2,
              !.neighbor = <<n.cand>>, !.proposal = m.moves,
              !.base = <<f.current>>,
              !.steps = Append(@, [title |-> f.iter + 1,
                                   structurePreview |-> current2.moves,
                                   currentFitness |-> current2.fitness,
                                   bestSoFar |-> best2.fitness,
                                   temperature |->
                                     TemperatureShown(f.params.startTemperature, f.iter),
                                   accepted |-> accept,
                                   improving |-> delta > 0])])))))))

\* lines 235-254
AnnealFinish(f) ==
  LET steps == Append(f.steps, [title |-> "Final Selection",
                                structurePreview |-> f.best.moves,
                                stability |-> f.best.fitness,
                                iterations |-> f.params.iterations,
                                temperature |->
                                  TemperatureShown(f.params.startTemperature, f.iter)])
  IN [f EXCEPT !.pc = "done", !.steps = steps,
               !.result = << [algorithm |-> "simulated-annealing",
                              finalStructure |-> f.best.moves,
                              stabilityScore |-> f.best.fitness,
                              steps |-> steps] >>]

(***************************************************************************)
(* geneticAlgorithm.ts: runGeneticFolding                                  *)
(***************************************************************************)
RECURSIVE SumFitness(_, _)
SumFitness(cands, k) ==
  IF k > Len(cands) THEN 0 ELSE Max2(0, cands[k].fitness) + SumFitness(cands, k + 1)

\* the roulette loop: index of the first candidate at which the running
\* remainder rand() * total - (fitness so far) is <= 0, else the last one
RECURSIVE RouletteIndex(_, _, _, _, _)
RouletteIndex(cands, value, total, k, acc) ==
  IF k > Len(cands) THEN Len(cands)
  ELSE IF RandTimesAtMost(value, total, acc + Max2(0, cands[k].fitness)) THEN k
  ELSE RouletteIndex(cands, value, total, k + 1, acc + Max2(0, cands[k].fitness))

selectParent(population, rng) ==
  Bind(SumFitness(population, 1), LAMBDA totalFitness :
    Bind(LcgNext(rng), LAMBDA v :
      IF totalFitness = 0
      THEN [rng |-> v, cand |-> population[FloorRandTimes(v, Len(population)) + 1]]
      ELSE [rng |-> v,
            cand |-> population[RouletteIndex(population, v, totalFitness, 1, 0)]]))

\* contributions[i]: contacts residue i takes part in
residueContributions(sequence, positions) ==
  LET mask == hydrophobicMask(sequence)
  IN [i \in 1..Len(sequence) |->
       Cardinality({j \in 1..Len(positions) :
         /\ i <= Len(positions)
         /\ (j >= i + 2 \/ i >= j + 2)
         /\ mask[i] /\ mask[j]
         /\ Abs(positions[i].x - positions[j].x)
              + Abs(positions[i].y - positions[j].y) = 1})]

\* the scan for (let i = 1; i < sequence.length - 1; i++), i zero-based
RECURSIVE CrossoverScan(_, _, _, _, _, _)
CrossoverScan(contribA, contribB, i, n, bestIndex, bestGap) ==
  IF i >= n - 1 THEN bestIndex
  ELSE IF Abs(contribA[i + 1] - contribB[i + 1]) > bestGap
  THEN CrossoverScan(contribA, contribB, i + 1, n, i,
                     Abs(contribA[i + 1] - contribB[i + 1]))
  ELSE CrossoverScan(contribA, contribB, i + 1, n, bestIndex, bestGap)

chooseCrossoverPoint(parentA, parentB, sequence) ==
  Bind(CrossoverScan(residueContributions(sequence, parentA.positions),
                     residueContributions(sequence, parentB.positions),
                     1, Len(sequence), Len(sequence) \div 2, 0), LAMBDA bestIndex :
    Min2(Max2(0, Len(sequence) - 2), Max2(0, bestIndex)))

RECURSIVE SumTo(_, _)
SumTo(f, k) == IF k = 0 THEN 0 ELSE f[k] + SumTo(f, k - 1)

\* Array.prototype.slice(from, to) with zero-based bounds
Slice(s, from, to) == SubSeq(s, from + 1, Min2(to, Len(s)))

strategicCrossover(parentA, parentB, sequence, rng) ==
  Bind(chooseCrossoverPoint(parentA, parentB, sequence), LAMBDA pivot :
  Bind(SumTo(residueContributions(sequence, parentA.positions),
             Min2(pivot + 1, Len(sequence)))
         >= SumTo(residueContributions(sequence, parentB.positions),
                  Min2(pivot + 1, Len(sequence))), LAMBDA useAFront :
  Bind(IF useAFront THEN Slice(parentA.moves, 0, pivot)
       ELSE Slice(parentB.moves, 0, pivot), LAMBDA prefix :
  Bind(IF useAFront THEN Slice(parentB.moves, pivot, Len(parentB.moves))
       ELSE Slice(parentA.moves, pivot, Len(parentA.moves)), LAMBDA suffix :
    IF tracePath(prefix \o suffix).valid THEN [rng |-> rng, moves |-> prefix \o suffix]
    ELSE IF tracePath(suffix \o prefix).valid
    THEN [rng |-> rng, moves |-> suffix \o prefix]
    ELSE Bind(mutateMoves(IF parentA.fitness >= parentB.fitness
                          THEN parentA.moves ELSE parentB.moves, rng), LAMBDA mutated :
           IF tracePath(mutated.moves).valid THEN mutated
           ELSE generateValidMoves(Len(sequence), mutated.rng))))))

\* stable insertion of c into a sequence sorted by descending fitness
RECURSIVE InsertByFitness(_, _, _)
InsertByFitness(sorted, c, k) ==
  IF k > Len(sorted) THEN Append(sorted, c)
  ELSE IF sorted[k].fitness < c.fitness
  THEN SubSeq(sorted, 1, k - 1) \o <<c>> \o SubSeq(sorted, k, Len(sorted))
  ELSE InsertByFitness(sorted, c, k + 1)

\* [...xs].sort((a, b) => b.fitness - a.fitness), a stable sort
RECURSIVE SortByFitness(_, _, _)
SortByFitness(xs, k, acc) ==
  IF k > Len(xs) THEN acc
  ELSE SortByFitness(xs, k + 1, InsertByFitness(acc, xs[k], 1))

\* RemoveAt leaving the picked element in the pool
RemoveAt_Keep(s, k) == s

\* pool.splice(pick, 1)
RemoveAt(s, k) == SubSeq(s, 1, k - 1) \o SubSeq(s, k + 1, Len(s))

\* while (survivors.length < populationSize && pool.length > 0)
RECURSIVE FillFromPool(_, _, _, _)
FillFromPool(survivors, pool, populationSize, rng) ==
  IF ~(Len(survivors) < populationSize /\ Len(pool) > 0)
  THEN [rng |-> rng, survivors |-> survivors]
  ELSE
    Bind(SumFitness(pool, 1), LAMBDA totalFitness :
    Bind(LcgNext(rng), LAMBDA v :
    Bind(IF totalFitness = 0 THEN FloorRandTimes(v, Len(pool)) + 1
         ELSE RouletteIndex(pool, v, totalFitness, 1, 0), LAMBDA pick :
      FillFromPool(Append(survivors, pool[pick]), RemoveAt(pool, pick),
                   populationSize, v))))

\* while (survivors.length < populationSize && sorted[survivors.length])
RECURSIVE FillFromSorted(_, _, _)
FillFromSorted(survivors, sorted, populationSize) ==
  IF Len(survivors) < populationSize /\ Len(survivors) < Len(sorted)
  THEN FillFromSorted(Append(survivors, sorted[Len(survivors) + 1]), sorted, populationSize)
  ELSE survivors

\* Math.max(1, Math.floor(sorted.length * 0.05))
EliteCount(n) == Max2(1, n \div 20)

selectSurvivors(combined, populationSize, rng) ==
  Bind(SortByFitness(combined, 1, <<>>), LAMBDA sorted :
  Bind(EliteCount(Len(sorted)), LAMBDA eliteCount :
  Bind(FillFromPool(Slice(sorted, 0, eliteCount), Slice(sorted, eliteCount, Len(sorted)),
                    populationSize, rng), LAMBDA filled :
    [rng |-> filled.rng,
     survivors |-> FillFromSorted(filled.survivors, sorted, populationSize),
     elites |-> eliteCount])))

\* population.reduce((best, cand) => cand.fitness > best.fitness ? cand : best, population[0])
RECURSIVE ReduceBest(_, _, _)
ReduceBest(cands, k, best) ==
  IF k > Len(cands) THEN best
  ELSE ReduceBest(cands, k + 1, IF cands[k].fitness > best.fitness THEN cands[k] ELSE best)

\* new Set(population.map((c) => c.moves.join(''))).size
Diversity(population) == Cardinality({population[k].moves : k \in 1..Len(population)})

\* Array.from({ length: populationSize }, () => evaluateCandidate(...))
RECURSIVE InitialPopulation(_, _, _, _)
InitialPopulation(sequence, populationSize, rng, acc) ==
  IF Len(acc) >= populationSize THEN [rng |-> rng, population |-> acc]
  ELSE Bind(makeCandidate(sequence, rng), LAMBDA c :
         InitialPopulation(sequence, populationSize, c.rng, Append(acc, c.cand)))

\* while (children.length < populationSize)
RECURSIVE Reproduce(_, _, _, _, _)
Reproduce(sequence, population, populationSize, rng, children) ==
  IF Len(children) >= populationSize THEN [rng |-> rng, children |-> children]
  ELSE
    Bind(selectParent(population, rng), LAMBDA a :
    Bind(selectParent(population, a.rng), LAMBDA b :
    Bind(strategicCrossover(a.cand, b.cand, sequence, b.rng), LAMBDA x :
    Bind(evaluateCandidate(sequence, x.moves, x.rng), LAMBDA c :
      Reproduce(sequence, population, populationSize, c.rng,
                Append(children, c.cand))))))

\* rand() < mutationRate, the rate given in thousandths
RandBelowRate(value, mutationRate) == RandTimes(value, 1000).q < mutationRate

\* survivors.map((candidate, idx) => ...): elites pass, the others mutate
\* with probability mutationRate
RECURSIVE MutateSurvivors(_, _, _, _, _, _, _)
MutateSurvivors(sequence, survivors, elites, mutationRate, rng, k, acc) ==
  IF k > Len(survivors) THEN [rng |-> rng, population |-> acc.population,
                              mutationsApplied |-> acc.mutationsApplied]
  ELSE IF k - 1 < elites
  THEN MutateSurvivors(sequence, survivors, elites, mutationRate, rng, k + 1,
         [acc EXCEPT !.population = Append(@, survivors[k])])
  ELSE
    Bind(LcgNext(rng), LAMBDA v :
      IF RandBelowRate(v, mutationRate)
      THEN Bind(mutateMoves(survivors[k].moves, v), LAMBDA m :
           Bind(evaluateCandidate(sequence, m.moves, m.rng), LAMBDA c :
             MutateSurvivors(sequence, survivors, elites, mutationRate, c.rng, k + 1,
               [population |-> Append(acc.population, c.cand),
                mutationsApplied |-> acc.mutationsApplied + 1])))
      ELSE MutateSurvivors(sequence, survivors, elites, mutationRate, v, k + 1,
             [acc EXCEPT !.population = Append(@, survivors[k])]))

\* the global best left at the best of the initial population
UpdateGlobalBest_Keep(globalBest, generationBest) == globalBest

\* if (generationBest.fitness > globalBest.fitness) globalBest = generationBest
UpdateGlobalBest(globalBest, generationBest) ==
  IF generationBest.fitness > globalBest.fitness THEN generationBest ELSE globalBest

\* lines 303-325
GeneticStart(sequence, params) ==
  Bind(InitialPopulation(sequence, params.populationSize, seededRandom(sequence), <<>>),
       LAMBDA p :
  Bind(ReduceBest(p.population, 1, p.population[1]), LAMBDA globalBest :
    [pc |-> "running", alg |-> "genetic", sequence |-> sequence, params |-> params,
     rng |-> p.rng, iter |-> 0,
     population |-> p.population, children |-> <<>>,
     globalBest |-> globalBest, lastElites |-> 0, survivors |-> <<>>,
     result |-> <<>>,
     steps |-> << [title |-> "Population Initialization",
                   structurePreview |-> p.population[1].moves,
                   diversity |-> Diversity(p.population),
                   best |-> globalBest.fitness] >>]))

\* lines 327-379: one generation
GeneticGeneration(f) ==
  Bind(Reproduce(f.sequence, f.population, f.params.populationSize, f.rng, <<>>),
       LAMBDA r :
  Bind(selectSurvivors(f.population \o r.children, f.params.populationSize, r.rng),
       LAMBDA sel :
  Bind(MutateSurvivors(f.sequence, sel.survivors, sel.elites, f.params.mutationRate,
                       sel.rng, 1, [population |-> <<>>, mutationsApplied |-> 0]),
       LAMBDA mut :
  Bind(ReduceBest(mut.population, 1, mut.population[1]), LAMBDA generationBest :
    [f EXCEPT !.rng = mut.rng, !.iter = @ + 1,
              !.population = mut.population, !.children = r.children,
              !.globalBest = UpdateGlobalBest(f.globalBest, generationBest),
              !.lastElites = sel.elites, !.survivors = sel.survivors,
              !.steps = Append(@, [title |-> f.iter + 1,
                                   structurePreview |-> generationBest.moves,
                                   best |-> generationBest.fitness,
                                   fitnessSum |->
                                     SumTo([k \in 1..Len(mut.population) |->
                                              mut.population[k].fitness],
                                           Len(mut.population)),
                                   diversity |-> Diversity(mut.population),
                                   elites |-> sel.elites,
                                   mutationsApplied |-> mut.mutationsApplied])]))))

\* population.forEach into uniqueMap (insertion-ordered), keyed by the path
RECURSIVE UniqueMap(_, _, _, _)
UniqueMap(population, lastElites, k, entries) ==
  IF k > Len(population) THEN entries
  ELSE
    Bind({e \in 1..Len(entries) : entries[e].path = population[k].moves}, LAMBDA at :
    Bind([path |-> population[k].moves, fitness |-> population[k].fitness,
          contacts |-> population[k].fitness, isElite |-> k - 1 < lastElites,
          positions |-> population[k].positions], LAMBDA new :
      IF at = {} THEN UniqueMap(population, lastElites, k + 1, Append(entries, new))
      ELSE Bind(CHOOSE e \in at : TRUE, LAMBDA e :
             IF new.fitness > entries[e].fitness
             THEN UniqueMap(population, lastElites, k + 1, [entries EXCEPT ![e] = new])
             ELSE IF new.isElite
             THEN UniqueMap(population, lastElites, k + 1,
                            [entries EXCEPT ![e].isElite = TRUE])
             ELSE UniqueMap(population, lastElites, k + 1, entries))))

\* lines 381-421
GeneticFinish(f) ==
  LET steps == Append(f.steps, [title |-> "Final Selection",
                                structurePreview |-> f.globalBest.moves,
                                stability |-> f.globalBest.fitness,
                                generations |-> f.params.generations,
                                populationSize |-> f.params.populationSize])
  IN [f EXCEPT !.pc = "done", !.steps = steps,
               !.result = << [algorithm |-> "genetic",
                              finalStructure |-> f.globalBest.moves,
                              stabilityScore |-> f.globalBest.fitness,
                              steps |-> steps,
                              uniqueConformations |->
                                SortByFitness(UniqueMap(f.population, f.lastElites, 1, <<>>),
                                              1, <<>>)] >>]

(***************************************************************************)
(* chouFasman.ts: runChouFasman.  Propensities, thresholds and scores are   *)
(* in hundredths; a window score is kept as the sum over the window and    *)
(* the window length.                                                      *)
(***************************************************************************)
HELIX_PROPENSITY ==
  [A |-> 145, C |-> 77, D |-> 101, E |-> 151, F |-> 113, G |-> 53, H |-> 100,
   I |-> 108, K |-> 116, L |-> 134, M |-> 120, N |-> 73, P |-> 34, Q |-> 117,
   R |-> 79, S |-> 79, T |-> 82, V |-> 106, W |-> 114, Y |-> 61]

SHEET_PROPENSITY ==
  [A |-> 97, C |-> 130, D |-> 54, E |-> 37, F |-> 123, G |-> 81, H |-> 71,
   I |-> 160, K |-> 74, L |-> 122, M |-> 167, N |-> 65, P |-> 62, Q |-> 123,
   R |-> 90, S |-> 72, T |-> 120, V |-> 165, W |-> 137, Y |-> 129]

getPropensity(char, table) == IF char \in DOMAIN table THEN table[char] ELSE 80

RECURSIVE WindowSum(_, _, _)
WindowSum(window, table, k) ==
  IF k > Len(window) THEN 0
  ELSE getPropensity(window[k], table) + WindowSum(window, table, k + 1)

\* assignStructure giving Sheet whenever the sheet average meets its threshold
assignStructure_SheetByThreshold(helixSum, sheetSum, n, helixThreshold, sheetThreshold) ==
  IF helixSum >= helixThreshold * n /\ helixSum >= sheetSum THEN "H"
  ELSE IF sheetSum >= sheetThreshold * n THEN "E"
  ELSE "C"

\* helixScore and sheetScore are sums over the same window of n residues
assignStructure(helixSum, sheetSum, n, helixThreshold, sheetThreshold) ==
  IF helixSum >= helixThreshold * n /\ helixSum >= sheetSum THEN "H"
  ELSE IF sheetSum >= sheetThreshold * n /\ sheetSum > helixSum THEN "E"
  ELSE "C"

\* (sum / n).toFixed(2) in hundredths: the nearest hundredth; when sum / n
\* lies exactly halfway the double that holds the quotient decides, and
\* tieDown says it is the one just below
ToFixed2(sum, n, tieDown) ==
  LET q == (2 * sum + n) \div (2 * n)
  IN IF (2 * sum) % (2 * n) = n /\ tieDown THEN q - 1 ELSE q

\* halfway quotients of sheet propensities over A and C whose double is
\* below the tie (windows of up to 7 residues); the helix ones have none
SheetTiesDown == {<<615, 6>>, <<747, 6>>}

\* structure strings of up to 7 residues whose mean weight is halfway and
\* whose double is below the tie
StabilityTiesDown ==
  { <<"H", "E", "E", "E">>, <<"E", "H", "E", "E">>, <<"E", "E", "H", "E">>,
    <<"E", "E", "E", "H">>, <<"C", "C", "H", "E">>, <<"C", "C", "H", "C">>,
    <<"C", "C", "C", "H">> }

StructureWeight(st) == IF st = "H" THEN 110 ELSE IF st = "E" THEN 100 ELSE 60

\* lines 82-113: the loop over the residues, i zero-based
RECURSIVE ChouFasmanLoop(_, _, _, _, _)
ChouFasmanLoop(residues, params, i, structures, steps) ==
  IF i >= Len(residues) THEN [structures |-> structures, steps |-> steps]
  ELSE
    Bind(Max2(0, i - (params.windowSize \div 2)), LAMBDA windowStart :
    Bind(Min2(Len(residues), i + ((params.windowSize + 1) \div 2)), LAMBDA windowEnd :
    Bind(SubSeq(residues, windowStart + 1, windowEnd), LAMBDA window :
    Bind(WindowSum(window, HELIX_PROPENSITY, 1), LAMBDA helixSum :
    Bind(WindowSum(window, SHEET_PROPENSITY, 1), LAMBDA sheetSum :
    Bind(assignStructure(helixSum, sheetSum, Len(window),
                         params.helixThreshold, params.sheetThreshold),
         LAMBDA structure :
      ChouFasmanLoop(residues, params, i + 1, Append(structures, structure),
        Append(steps, [title |-> <<i + 1, residues[i + 1]>>,
                       window |-> <<windowStart + 1, windowEnd>>,
                       structurePreview |-> Append(structures, structure),
                       helix |-> ToFixed2(helixSum, Len(window), FALSE),
                       sheet |-> ToFixed2(sheetSum, Len(window),
                                          <<sheetSum, Len(window)>> \in SheetTiesDown),
                       decision |-> structure]))))))))

runChouFasman(sequence, params) ==
  Bind(ChouFasmanLoop(sequence, params, 0, <<>>, <<>>), LAMBDA r :
    [algorithm |-> "chou-fasman",
     finalStructure |-> r.structures,
     stabilityScore |->
       ToFixed2(SumTo([k \in 1..Len(r.structures) |-> StructureWeight(r.structures[k])],
                      Len(r.structures)),
                Len(r.structures), r.structures \in StabilityTiesDown),
     steps |-> r.steps])

(***************************************************************************)
(* App.tsx: the alignment page state and handleAlign                       *)
(***************************************************************************)
NoResult == [matrix |-> <<>>, alignedSeq1 |-> <<>>, alignedSeq2 |-> <<>>,
             score |-> 0, path |-> <<>>, steps |-> <<>>]

DefaultBandwidth == 3

\* AlignmentMatrix.tsx: the class 'outside-band' is put on a cell when
\* showBand && !isInBand(cell.row, cell.col), with the bandwidth prop
ShownOutsideBand(row, col, showBand, bandwidthProp) ==
  showBand /\ ~(Abs(row - col) <= bandwidthProp)

\* App.tsx 52-54: currentStep is undefined (<<>>) or a number (<<k>>);
\* visualizerStep is the currentStep state of StepVisualizer, 0 on mount
NoSteps ==
  /\ currentStep = <<>>
  /\ isPlaying = FALSE
  /\ showStepVisualizer = FALSE
  /\ visualizerStep = 0

\* the step-by-step layout is rendered: StepVisualizer is mounted
StepViewOpen(showSteps, res) == showSteps /\ Len(res.steps) > 0

\* handleAlign: setCurrentStep(undefined), setIsPlaying(false); a
\* StepVisualizer that stays mounted over the render keeps its state, one
\* that is mounted by it starts at 0
ResetSteps(newResult) ==
  /\ currentStep' = <<>>
  /\ isPlaying' = FALSE
  /\ UNCHANGED showStepVisualizer
  /\ visualizerStep' = IF StepViewOpen(showStepVisualizer, result)
                           /\ StepViewOpen(showStepVisualizer, newResult)
                        THEN visualizerStep ELSE 0

\* SequenceInput.tsx: the initial form
DefaultForm ==
  [seq1 |-> <<"G", "C", "A", "T", "G", "C", "G">>,
   seq2 |-> <<"G", "A", "T", "T", "A", "C", "A">>,
   algorithm |-> "global",
   params |-> [match |-> 1, mismatch |-> -1, gapPenalty |-> -2,
               bandwidth |-> DefaultBandwidth]]

\* the forms of the alignment page: short sequences under every scoring, and
\* the initial form under each algorithm
AlignForms ==
  {f \in [seq1 : InputSeqs, seq2 : InputSeqs, algorithm : Algorithms,
          params : {[match |-> s.match, mismatch |-> s.mismatch,
                     gapPenalty |-> s.gapPenalty, bandwidth |-> k] :
                    s \in Scorings, k \in Bandwidths}] :
     \* a ScoringParams object carries no bandwidth; one form value per scoring
     f.algorithm # "banded" => f.params.bandwidth = DefaultBandwidth}
  \cup {[DefaultForm EXCEPT !.algorithm = a] : a \in Algorithms}

InitAlign ==
  /\ form \in AlignForms
  /\ result = NoResult
  /\ sequences = [seq1 |-> <<>>, seq2 |-> <<>>]
  /\ algorithm = "global"
  /\ bandwidth = DefaultBandwidth
  /\ pc = "form"
  /\ NoSteps
  /\ engine = "timsort"
  /\ fold = NoFold
  /\ returned = <<>>
  /\ seen = <<>>

\* handleAlign, algo === 'global'
AlignGlobal ==
  /\ pc = "form"
  /\ form.algorithm = "global"
  /\ sequences' = [seq1 |-> form.seq1, seq2 |-> form.seq2]
  /\ algorithm' = form.algorithm
  /\ result' = globalAlignment(form.seq1, form.seq2, form.params)
  /\ pc' = "shown"
  /\ ResetSteps(result')
  /\ UNCHANGED <<form, bandwidth>>
  /\ UNCHANGED foldVars

\* handleAlign, algo === 'local'
AlignLocal ==
  /\ pc = "form"
  /\ form.algorithm = "local"
  /\ sequences' = [seq1 |-> form.seq1, seq2 |-> form.seq2]
  /\ algorithm' = form.algorithm
  /\ result' = localAlignment(form.seq1, form.seq2, form.params)
  /\ pc' = "shown"
  /\ ResetSteps(result')
  /\ UNCHANGED <<form, bandwidth>>
  /\ UNCHANGED foldVars

\* handleAlign, algo === 'dovetail'
AlignDovetail ==
  /\ pc = "form"
  /\ form.algorithm = "dovetail"
  /\ sequences' = [seq1 |-> form.seq1, seq2 |-> form.seq2]
  /\ algorithm' = form.algorithm
  /\ result' = dovetailAlignment(form.seq1, form.seq2, form.params)
  /\ pc' = "shown"
  /\ ResetSteps(result')
  /\ UNCHANGED <<form, bandwidth>>
  /\ UNCHANGED foldVars

\* handleAlign, the banded branch
AlignBanded ==
  /\ pc = "form"
  /\ form.algorithm = "banded"
  /\ sequences' = [seq1 |-> form.seq1, seq2 |-> form.seq2]
  /\ algorithm' = form.algorithm
  /\ bandwidth' = form.params.bandwidth
  /\ result' = bandedAlignment(form.seq1, form.seq2, form.params)
  /\ pc' = "shown"
  /\ ResetSteps(result')
  /\ UNCHANGED <<form>>
  /\ UNCHANGED foldVars

NextAlign == AlignGlobal \/ AlignLocal \/ AlignDovetail \/ AlignBanded

SpecAlign == InitAlign /\ [][NextAlign]_vars

(***************************************************************************)
(* The step-by-step view: App.tsx keeps currentStep, isPlaying and         *)
(* showStepVisualizer, StepVisualizer keeps its own currentStep            *)
(* (visualizerStep), AlignmentMatrix derives the highlighted and the       *)
(* filled cells from the currentStep prop.  The form can be edited and     *)
(* submitted again while a result is on display.                           *)
(***************************************************************************)
MaxViewLen == 2

\* the sequences typed into the form: A, AC, ACA, ...
ViewSeqs ==
  {s \in InputSeqs : /\ Len(s) <= MaxViewLen
                     /\ \A k \in 1..Len(s) : s[k] = IF k % 2 = 1 THEN "A" ELSE "C"}

\* the forms of the step view: the default scoring, the band at its
\* narrowest and at its default width
ViewForms ==
  {f \in AlignForms :
     /\ f.seq1 \in ViewSeqs /\ f.seq2 \in ViewSeqs
     /\ f.params.match = DefaultForm.params.match
     /\ f.params.mismatch = DefaultForm.params.mismatch
     /\ f.params.gapPenalty = DefaultForm.params.gapPenalty
     /\ f.params.bandwidth \in {0, DefaultBandwidth}}

InitView ==
  /\ form \in ViewForms
  /\ result = NoResult
  /\ sequences = [seq1 |-> <<>>, seq2 |-> <<>>]
  /\ algorithm = "global"
  /\ bandwidth = DefaultBandwidth
  /\ pc = "form"
  /\ NoSteps
  /\ engine = "timsort"
  /\ fold = NoFold
  /\ returned = <<>>
  /\ seen = <<>>

\* SequenceInput.tsx: the fields of the form are changed; the result of the
\* last submission stays on display
EditForm ==
  /\ pc = "shown"
  /\ \E f \in ViewForms \ {form} : form' = f
  /\ pc' = "form"
  /\ UNCHANGED <<result, sequences, algorithm, bandwidth>>
  /\ UNCHANGED viewVars
  /\ UNCHANGED foldVars

\* App.tsx 226-231: the 'Step-by-Step' toggle
ShowStepByStep ==
  /\ result # NoResult
  /\ showStepVisualizer' = TRUE
  /\ visualizerStep' = IF StepViewOpen(showStepVisualizer, result)
                       THEN visualizerStep ELSE 0
  /\ UNCHANGED <<form, result, sequences, algorithm, bandwidth, pc>>
  /\ UNCHANGED <<currentStep, isPlaying>>
  /\ UNCHANGED foldVars

\* App.tsx 219-224: the 'Final Result' toggle; StepVisualizer is unmounted
ShowFinalResult ==
  /\ result # NoResult
  /\ showStepVisualizer' = FALSE
  /\ visualizerStep' = 0
  /\ UNCHANGED <<form, result, sequences, algorithm, bandwidth, pc>>
  /\ UNCHANGED <<currentStep, isPlaying>>
  /\ UNCHANGED foldVars

\* totalSteps = steps.length
totalSteps == Len(result.steps)

\* goToStep: the step clamped to 0..totalSteps - 1, then setCurrentStep and
\* onStepChange (handleStepChange of App.tsx)
goToStep(step) ==
  /\ visualizerStep' = Max2(0, Min2(step, totalSteps - 1))
  /\ currentStep' = <<visualizerStep'>>
  /\ UNCHANGED <<isPlaying, showStepVisualizer>>
  /\ UNCHANGED <<form, result, sequences, algorithm, bandwidth, pc>>
  /\ UNCHANGED foldVars

\* the buttons; Start and Prev are disabled at step 0, Next and End from
\* the last step on
ClickStart ==
  /\ StepViewOpen(showStepVisualizer, result)
  /\ visualizerStep # 0
  /\ goToStep(0)

ClickPrev ==
  /\ StepViewOpen(showStepVisualizer, result)
  /\ visualizerStep # 0
  /\ goToStep(visualizerStep - 1)

ClickNext ==
  /\ StepViewOpen(showStepVisualizer, result)
  /\ ~(visualizerStep >= totalSteps - 1)
  /\ goToStep(visualizerStep + 1)

ClickEnd ==
  /\ StepViewOpen(showStepVisualizer, result)
  /\ ~(visualizerStep >= totalSteps - 1)
  /\ goToStep(totalSteps - 1)

\* the range input, min 0 and max totalSteps - 1: onChange fires for a value
\* other than the one the thumb is at
MoveSlider ==
  /\ StepViewOpen(showStepVisualizer, result)
  /\ \E value \in 0..(totalSteps - 1) :
       /\ value # Min2(visualizerStep, totalSteps - 1)
       /\ goToStep(value)

\* handlePlayPause
PlayPause ==
  /\ StepViewOpen(showStepVisualizer, result)
  /\ isPlaying' = ~isPlaying
  /\ UNCHANGED <<currentStep, showStepVisualizer, visualizerStep>>
  /\ UNCHANGED <<form, result, sequences, algorithm, bandwidth, pc>>
  /\ UNCHANGED foldVars

\* the interval callback of the auto-play effect
AutoPlayTick ==
  /\ StepViewOpen(showStepVisualizer, result)
  /\ isPlaying
  /\ IF visualizerStep >= totalSteps - 1
     THEN /\ isPlaying' = ~isPlaying
          /\ UNCHANGED <<currentStep, visualizerStep>>
     ELSE /\ visualizerStep' = visualizerStep + 1
          /\ currentStep' = <<visualizerStep'>>
          /\ UNCHANGED isPlaying
  /\ UNCHANGED showStepVisualizer
  /\ UNCHANGED <<form, result, sequences, algorithm, bandwidth, pc>>
  /\ UNCHANGED foldVars

\* AlignmentMatrix.tsx: the count of an interior cell in the double loop
\* over i = 1..rows - 1, j = 1..cols - 1
CellCount(matrix, row, col) == (row - 1) * (Length(matrix[0]) - 1) + (col - 1)

\* the interior cells of a matrix
InteriorCells(matrix) ==
  {<<i, j>> : i \in 1..(Length(matrix) - 1), j \in 1..(Length(matrix[0]) - 1)}

\* filledCells for a currentStep that is a number
filledCells(matrix, step) ==
  {c \in InteriorCells(matrix) : CellCount(matrix, c[1], c[2]) <= step[1]}

\* isCellFilled: the borders always, every cell when currentStep is undefined
isCellFilled(matrix, step, row, col) ==
  \/ row = 0 \/ col = 0
  \/ step = <<>>
  \/ <<row, col>> \in filledCells(matrix, step)

isCurrentStep(matrix, step, row, col) ==
  /\ step # <<>> /\ row # 0 /\ col # 0
  /\ CellCount(matrix, row, col) = step[1]

NextView ==
  \/ AlignGlobal
  \/ AlignLocal
  \/ AlignDovetail
  \/ AlignBanded
  \/ EditForm
  \/ ShowStepByStep
  \/ ShowFinalResult
  \/ ClickStart
  \/ ClickPrev
  \/ ClickNext
  \/ ClickEnd
  \/ MoveSlider
  \/ PlayPause
  \/ AutoPlayTick

SpecView == InitView /\ [][NextView]_vars

(***************************************************************************)
(* The folding entry points as a state machine: an invocation starts from  *)
(* a sequence and its parameters, runs its loop one round per step and     *)
(* returns; returned keeps the results in the order the calls returned.    *)
(***************************************************************************)
MaxFoldLen == 5
MaxPopulation == 3
MaxGenerations == 2
MaxIterations == 3
MaxRuns == 3

FoldSeqs == UNION {SeqsOfLen(n) : n \in 1..MaxFoldLen}

\* mutationRate in thousandths, coolingRate in tenths
GeneticParamSet == [populationSize : 1..MaxPopulation, generations : 1..MaxGenerations,
                    mutationRate : {1, 600}]
HillParamSet == [iterations : 1..MaxIterations, restartInterval : {0, 2}]
AnnealParamSet == [iterations : 1..MaxIterations, startTemperature : {0, 6},
                   coolingRate : {9}]
ChouParamSet == [windowSize : {3, 6}, helixThreshold : {103}, sheetThreshold : {100}]

\* the sequences given to runChouFasman: the short ones and one whose
\* window HHI has a helix average of 1.0267 and a sheet average of 1.0067
ChouSeqs == FoldSeqs \cup {<<"H", "H", "I">>}

\* the sequences given to runHillClimbingFolding: the short ones and one
\* whose seed brings the generator to 0xffffffff at its 18th draw
HillSeqs == FoldSeqs \cup {<<"P", "P", "N", "A", "L", "H", "C">>}

\* the inputs of the repeated invocations
RepeatSeqs == {<<"A", "A", "A", "A">>, <<"A", "C", "C", "A">>}
RepeatGeneticParamSet == {[populationSize |-> 2, generations |-> 1, mutationRate |-> 600]}
RepeatHillParamSet == {[iterations |-> 1, restartInterval |-> 0]}
RepeatAnnealParamSet == {[iterations |-> 1, startTemperature |-> 6, coolingRate |-> 9]}
RepeatChouParamSet == {[windowSize |-> 3, helixThreshold |-> 103, sheetThreshold |-> 100]}

InitFold ==
  /\ form = DefaultForm
  /\ result = NoResult
  /\ sequences = [seq1 |-> <<>>, seq2 |-> <<>>]
  /\ algorithm = "global"
  /\ bandwidth = DefaultBandwidth
  /\ pc = "form"
  /\ NoSteps
  /\ engine \in SortEngines
  /\ fold = NoFold
  /\ returned = <<>>
  /\ seen = <<>>

CanStart(maxRuns) == fold.pc \in {"idle", "done"} /\ Len(returned) < maxRuns

Returned(f) == [alg |-> f.alg, sequence |-> f.sequence, params |-> f.params,
                result |-> f.result[1]]

\* runGeneticFolding up to the generation loop
StartGenetic(seqs, paramSet, maxRuns) ==
  /\ CanStart(maxRuns)
  /\ \E sequence \in seqs, params \in paramSet :
       /\ fold' = GeneticStart(sequence, params)
       /\ seen' = <<fold'.population>>
  /\ UNCHANGED <<engine, returned>>
  /\ UNCHANGED alignVars

\* one generation of the loop
StepGenetic ==
  /\ fold.pc = "running" /\ fold.alg = "genetic"
  /\ fold.iter < fold.params.generations
  /\ fold' = GeneticGeneration(fold)
  /\ seen' = Append(seen, fold'.population)
  /\ UNCHANGED <<engine, returned>>
  /\ UNCHANGED alignVars

\* the loop is over: final step, uniqueConformations, return
FinishGenetic ==
  /\ fold.pc = "running" /\ fold.alg = "genetic"
  /\ ~(fold.iter < fold.params.generations)
  /\ fold' = GeneticFinish(fold)
  /\ returned' = Append(returned, Returned(fold'))
  /\ UNCHANGED <<engine, seen>>
  /\ UNCHANGED alignVars

\* the positions at which two move lists of equal length differ
DiffPositions(a, b) == {k \in 1..Len(a) : a[k] # b[k]}

\* all move lists that differ from moves in exactly one position
SingleFlips(moves) ==
  {[moves EXCEPT ![k] = d] : k \in 1..Len(moves), d \in {"L", "F", "R"}} \ {moves}

\* the fitness of a self-avoiding move list
WalkFitness(sequence, moves) == countHHContacts(sequence, tracePath(moves).positions)

\* the self-avoiding single-flip neighbours of a move list
ValidFlips(moves) == {m \in SingleFlips(moves) : tracePath(m).valid}

\* no self-avoiding single-flip neighbour of the candidate is at least as fit
LocalPeak(sequence, cand) ==
  \A m \in ValidFlips(cand.moves) : WalkFitness(sequence, m) < cand.fitness

StartHill(seqs, paramSet, maxRuns) ==
  /\ CanStart(maxRuns)
  /\ \E sequence \in seqs, params \in paramSet : fold' = HillStart(sequence, params)
  /\ seen' = <<>>
  /\ UNCHANGED <<engine, returned>>
  /\ UNCHANGED alignVars

StepHill ==
  /\ fold.pc = "running" /\ fold.alg = "hill-climb"
  /\ fold.iter < fold.params.iterations
  /\ fold' = HillIterate(fold)
  /\ UNCHANGED <<engine, returned, seen>>
  /\ UNCHANGED alignVars

\* FinishHill leaving the loop as soon as current is a local peak
FinishHill_AtPeak ==
  /\ fold.pc = "running" /\ fold.alg = "hill-climb"
  /\ ~(fold.iter < fold.params.iterations) \/ LocalPeak(fold.sequence, fold.current)
  /\ fold' = HillFinish(fold)
  /\ returned' = Append(returned, Returned(fold'))
  /\ UNCHANGED <<engine, seen>>
  /\ UNCHANGED alignVars

FinishHill ==
  /\ fold.pc = "running" /\ fold.alg = "hill-climb"
  /\ ~(fold.iter < fold.params.iterations)
  /\ fold' = HillFinish(fold)
  /\ returned' = Append(returned, Returned(fold'))
  /\ UNCHANGED <<engine, seen>>
  /\ UNCHANGED alignVars

StartAnneal(seqs, paramSet, maxRuns) ==
  /\ CanStart(maxRuns)
  /\ \E sequence \in seqs, params \in paramSet : fold' = AnnealStart(sequence, params)
  /\ seen' = <<>>
  /\ UNCHANGED <<engine, returned>>
  /\ UNCHANGED alignVars

StepAnneal ==
  /\ fold.pc = "running" /\ fold.alg = "simulated-annealing"
  /\ fold.iter < fold.params.iterations
  /\ fold' = AnnealIterate(fold)
  /\ UNCHANGED <<engine, returned, seen>>
  /\ UNCHANGED alignVars

FinishAnneal ==
  /\ fold.pc = "running" /\ fold.alg = "simulated-annealing"
  /\ ~(fold.iter < fold.params.iterations)
  /\ fold' = AnnealFinish(fold)
  /\ returned' = Append(returned, Returned(fold'))
  /\ UNCHANGED <<engine, seen>>
  /\ UNCHANGED alignVars

\* runChouFasman has no loop over a generator: one step
CallChouFasman(seqs, paramSet, maxRuns) ==
  /\ CanStart(maxRuns)
  /\ \E sequence \in seqs, params \in paramSet :
       fold' = [pc |-> "done", alg |-> "chou-fasman", sequence |-> sequence,
                params |-> params, rng |-> fold.rng,
                result |-> <<runChouFasman(sequence, params)>>]
  /\ returned' = Append(returned, Returned(fold'))
  /\ seen' = <<>>
  /\ UNCHANGED engine
  /\ UNCHANGED alignVars

\* one invocation over the whole input range
NextFold ==
  \/ StartGenetic(FoldSeqs, GeneticParamSet, 1)
  \/ StepGenetic
  \/ FinishGenetic
  \/ StartHill(HillSeqs, HillParamSet, 1)
  \/ StepHill
  \/ FinishHill
  \/ StartAnneal(FoldSeqs, AnnealParamSet, 1)
  \/ StepAnneal
  \/ FinishAnneal
  \/ CallChouFasman(ChouSeqs, ChouParamSet, 1)

SpecFold == InitFold /\ [][NextFold]_vars

\* up to MaxRuns invocations one after the other
NextFoldRepeat ==
  \/ StartGenetic(RepeatSeqs, RepeatGeneticParamSet, MaxRuns)
  \/ StepGenetic
  \/ FinishGenetic
  \/ StartHill(RepeatSeqs, RepeatHillParamSet, MaxRuns)
  \/ StepHill
  \/ FinishHill
  \/ StartAnneal(RepeatSeqs, RepeatAnnealParamSet, MaxRuns)
  \/ StepAnneal
  \/ FinishAnneal
  \/ CallChouFasman(RepeatSeqs, RepeatChouParamSet, MaxRuns)

SpecFoldRepeat == InitFold /\ [][NextFoldRepeat]_vars

(***************************************************************************)
(* generateValidMoves as a state machine: one step per iteration of the    *)
(* loop over i < movesNeeded, the generator being the one runGeneticFolding*)
(* hands to its first call, seededRandom(sequence).                        *)
(***************************************************************************)
\* a sequence whose first attempt runs into a dead end
DeadEndSeq == <<"A", "C", "C", "A", "C", "C", "C", "A", "A", "C", "A", "C">>

\* a sequence of 120 residues whose 20 attempts all run into a dead end
TrappedSeq ==
  <<"C", "A", "A", "A", "A", "A", "C", "A", "C", "C", "A", "A", "A", "C", "A",
    "C", "A", "A", "C", "C", "C", "C", "C", "C", "C", "A", "C", "C", "C", "A",
    "A", "A", "A", "A", "A", "C", "C", "C", "A", "A", "A", "A", "A", "C", "A",
    "C", "A", "C", "C", "A", "C", "A", "A", "A", "A", "C", "C", "C", "A", "A",
    "C", "A", "C", "C", "A", "C", "A", "C", "C", "C", "C", "C", "A", "A", "C",
    "C", "C", "C", "A", "C", "A", "C", "A", "A", "C", "C", "A", "C", "C", "C",
    "A", "C", "C", "A", "A", "A", "A", "C", "C", "A", "A", "A", "A", "C", "A",
    "A", "A", "A", "C", "A", "C", "C", "C", "C", "A", "A", "A", "C", "A", "C">>

\* the sequences generateValidMoves is called for: none, the short ones and
\* the two above
WalkSeqs == {<<>>} \cup FoldSeqs \cup {DeadEndSeq, TrappedSeq}

Origin == [x |-> 0, y |-> 0]

\* lines 124-127 and the first attempt's locals
WalkStart(sequence) ==
  [pc |-> IF Len(sequence) <= 1 THEN "done" ELSE "walking",
   alg |-> "generateValidMoves", sequence |-> sequence, length |-> Len(sequence),
   rng |-> seededRandom(sequence), attempt |-> 0, deadEnds |-> 0,
   moves |-> <<>>, orientation |-> 0, current |-> Origin, visited |-> {Origin},
   result |-> IF Len(sequence) <= 1 THEN << <<>> >> ELSE <<>>]

\* lines 136-160: one iteration of the loop over i, followed by what ends
\* the attempt: return moves, the next attempt, or the straight line after
\* the last attempt
WalkIterate(w) ==
  Bind(ShuffleDirections(w.rng), LAMBDA sh :
  Bind(FirstFree(sh.order, 1, w.orientation, w.current, w.visited), LAMBDA pick :
    IF ~pick.found
    THEN IF w.attempt + 1 >= maxAttempts
         THEN [w EXCEPT !.rng = sh.rng, !.attempt = w.attempt + 1,
                        !.deadEnds = w.deadEnds + 1, !.pc = "done",
                        !.result = << StraightWalk(w.length - 1) >>]
         ELSE [w EXCEPT !.rng = sh.rng, !.attempt = w.attempt + 1,
                        !.deadEnds = w.deadEnds + 1,
                        !.moves = <<>>, !.orientation = 0, !.current = Origin,
                        !.visited = {Origin}]
    ELSE IF Len(w.moves) + 1 >= w.length - 1
         THEN [w EXCEPT !.rng = sh.rng, !.attempt = w.attempt + 1,
                        !.moves = Append(w.moves, pick.chosen),
                        !.orientation = pick.orientation, !.current = pick.current,
                        !.visited = w.visited \cup {pick.current}, !.pc = "done",
                        !.result = << Append(w.moves, pick.chosen) >>]
         ELSE [w EXCEPT !.rng = sh.rng,
                        !.moves = Append(w.moves, pick.chosen),
                        !.orientation = pick.orientation, !.current = pick.current,
                        !.visited = w.visited \cup {pick.current}]))

CallGenerateValidMoves ==
  /\ fold.pc \in {"idle", "done"}
  /\ \E sequence \in WalkSeqs : fold' = WalkStart(sequence)
  /\ UNCHANGED <<engine, returned, seen>>
  /\ UNCHANGED alignVars

StepWalk ==
  /\ fold.pc = "walking"
  /\ fold' = WalkIterate(fold)
  /\ UNCHANGED <<engine, returned, seen>>
  /\ UNCHANGED alignVars

NextWalk == CallGenerateValidMoves \/ StepWalk

SpecWalk == InitFold /\ [][NextWalk]_vars

(***************************************************************************)
(* Properties of the alignment engine                                      *)
(***************************************************************************)
Shown(algo) == pc = "shown" /\ algorithm = algo

\* the reference recurrence of Needleman-Wunsch, by recursion on prefixes
RECURSIVE F(_, _, _, _, _)
F(i, j, seq1, seq2, params) ==
  IF i = 0 THEN j * params.gapPenalty
  ELSE IF j = 0 THEN i * params.gapPenalty
  ELSE Max3(F(i - 1, j - 1, seq1, seq2, params)
              + (IF seq1[i] = seq2[j] THEN params.match ELSE params.mismatch),
            F(i - 1, j, seq1, seq2, params) + params.gapPenalty,
            F(i, j - 1, seq1, seq2, params) + params.gapPenalty)

\* C1: globalAlignment returns score F(m,n) and every matrix cell (i,j)
\* holds F(i,j), F being the Needleman-Wunsch recurrence.
C1_GlobalScoreIsF ==
  Shown("global") =>
    LET m == Len(form.seq1)
        n == Len(form.seq2)
    IN /\ result.score = F(m, n, form.seq1, form.seq2, form.params)
       /\ \A i \in 0..m : \A j \in 0..n :
            result.matrix[i][j].score = F(i, j, form.seq1, form.seq2, form.params)

\* a global alignment of two sequences of length >= 2 whose matrix holds
\* all three directions in interior cells
C1_Witness ==
  /\ Shown("global")
  /\ Len(form.seq1) >= 2 /\ Len(form.seq2) >= 2
  /\ \A d \in {DIAGONAL, UP, LEFT} :
       \E i \in 1..Len(form.seq1) : \E j \in 1..Len(form.seq2) :
         result.matrix[i][j].direction = d

\* C2: banded alignment with bandwidth >= max(|seq1|,|seq2|) returns the
\* score and the aligned strings of global alignment on the same inputs.
C2_WideBandEqualsGlobal ==
  (Shown("banded") /\ form.params.bandwidth >= Max2(Len(form.seq1), Len(form.seq2))) =>
    LET g == globalAlignment(form.seq1, form.seq2, form.params)
    IN /\ result.score = g.score
       /\ result.alignedSeq1 = g.alignedSeq1
       /\ result.alignedSeq2 = g.alignedSeq2

\* a wide-band run whose alignment uses a gap (the path leaves the diagonal)
C2_Witness ==
  /\ Shown("banded")
  /\ form.params.bandwidth = Max2(Len(form.seq1), Len(form.seq2))
  /\ Len(form.seq1) = Len(form.seq2)
  /\ \E k \in 1..Len(result.alignedSeq1) : result.alignedSeq1[k] = "-"

\* C5 as stated: for every nonzero gapPenalty the global score is <= the
\* dovetail score on the same inputs.
C5_GlobalLeDovetailNonzeroGap ==
  (Shown("dovetail") /\ form.params.gapPenalty # 0) =>
    globalAlignment(form.seq1, form.seq2, form.params).score <= result.score

\* C5 amended: for every negative gapPenalty the global score is <= the
\* dovetail score on the same inputs.
C5_GlobalLeDovetailNegativeGap ==
  (Shown("dovetail") /\ form.params.gapPenalty < 0) =>
    globalAlignment(form.seq1, form.seq2, form.params).score <= result.score

\* a dovetail run with a negative gap penalty that scores strictly higher
\* than global alignment and ends away from the corner
C5_Witness ==
  /\ Shown("dovetail")
  /\ form.params.gapPenalty < 0
  /\ globalAlignment(form.seq1, form.seq2, form.params).score < result.score
  /\ DovetailPhases(form.seq1, form.seq2, form.params).trailing > 0

\* score of one alignment column
ColumnScore(c1, c2, params) ==
  IF c1 = "-" \/ c2 = "-" THEN params.gapPenalty
  ELSE IF c1 = c2 THEN params.match ELSE params.mismatch

RECURSIVE SumColumns(_, _, _, _, _)
SumColumns(a1, a2, from, to, params) ==
  IF from > to THEN 0
  ELSE ColumnScore(a1[from], a2[from], params) + SumColumns(a1, a2, from + 1, to, params)

\* C6: the dovetail score is the sum of the column scores of the columns
\* written by the inner backtrace only; the synthesized leading and
\* trailing gap columns contribute nothing.
C6_DovetailScoreIsInnerColumns ==
  Shown("dovetail") =>
    LET ph == DovetailPhases(form.seq1, form.seq2, form.params)
    IN /\ Len(result.alignedSeq1) = ph.leading + ph.inner + ph.trailing
       /\ Len(result.alignedSeq2) = Len(result.alignedSeq1)
       /\ result.score = SumColumns(result.alignedSeq1, result.alignedSeq2,
                                    ph.leading + 1, ph.leading + ph.inner, form.params)

\* a dovetail run with leading, inner and trailing columns and a gap
\* penalty that would have changed the score had the runs been charged
C6_Witness ==
  /\ Shown("dovetail")
  /\ form.params.gapPenalty # 0
  /\ LET ph == DovetailPhases(form.seq1, form.seq2, form.params)
     IN ph.leading > 0 /\ ph.inner > 0 /\ ph.trailing > 0

PathStepOk(matrix, a, b) ==
  LET d == matrix[b.row][b.col].direction
  IN \/ d = DIAGONAL /\ a.row = b.row - 1 /\ a.col = b.col - 1
     \/ d = UP /\ a.row = b.row - 1 /\ a.col = b.col
     \/ d = LEFT /\ a.row = b.row /\ a.col = b.col - 1

\* C7: for every nominal bandwidth k >= 0 the banded fill covers exactly
\* the band |i-j| <= max(k, ||seq1|-|seq2||), the corner is in the band with
\* a finite score, and the traceback walks from (m,n) to (0,0) through
\* in-band cells with finite scores (the insufficient-band case never occurs).
C7_BandReachesCorner ==
  Shown("banded") =>
    LET m == Len(form.seq1)
        n == Len(form.seq2)
        eff == Max2(form.params.bandwidth, Abs(m - n))
    IN /\ \A i \in 0..m : \A j \in 0..n :
            (Abs(i - j) <= eff) <=> (result.matrix[i][j].score # NegInf)
       /\ {<<result.steps[k].row, result.steps[k].col>> : k \in 1..Len(result.steps)}
            = {<<i, j>> \in (1..m) \X (1..n) : Abs(i - j) <= eff}
       /\ Abs(m - n) <= eff
       /\ result.score # NegInf
       /\ result.path[1] = [row |-> 0, col |-> 0]
       /\ result.path[Len(result.path)] = [row |-> m, col |-> n]
       /\ \A k \in 1..Len(result.path) :
            /\ Abs(result.path[k].row - result.path[k].col) <= eff
            /\ result.matrix[result.path[k].row][result.path[k].col].score # NegInf
       /\ \A k \in 1..(Len(result.path) - 1) :
            PathStepOk(result.matrix, result.path[k], result.path[k + 1])

\* a banded run whose nominal bandwidth is smaller than the length
\* difference, so the band had to be widened
C7_Witness ==
  /\ Shown("banded")
  /\ form.params.bandwidth < Abs(Len(form.seq1) - Len(form.seq2))
  /\ \E i \in 0..Len(form.seq1) : \E j \in 0..Len(form.seq2) :
       result.matrix[i][j].score = NegInf

\* C8: after a banded run the display uses the effective bandwidth
\* max(k, ||seq1|-|seq2||): no cell computed inside the effective band is
\* shown as outside the band.
C8_DisplayUsesEffectiveBandwidth ==
  Shown("banded") =>
    LET m == Len(form.seq1)
        n == Len(form.seq2)
        eff == Max2(form.params.bandwidth, Abs(m - n))
    IN /\ bandwidth = eff
       /\ \A i \in 0..m : \A j \in 0..n :
            (Abs(i - j) <= eff) =>
              ~ShownOutsideBand(i, j, algorithm = "banded", bandwidth)

(***************************************************************************)
(* Properties of the folding search drivers                                *)
(***************************************************************************)
\* every candidate the running or finished invocation holds
HeldCandidates(f) ==
  IF f.pc = "idle" \/ f.alg = "chou-fasman" THEN {}
  ELSE IF f.alg = "genetic"
  THEN {f.population[k] : k \in 1..Len(f.population)}
         \cup {f.children[k] : k \in 1..Len(f.children)} \cup {f.globalBest}
  ELSE {f.current, f.best} \cup {f.neighbor[k] : k \in 1..Len(f.neighbor)}
         \cup (IF f.alg = "hill-climb"
               THEN {f.restart[k] : k \in 1..Len(f.restart)} ELSE {})

SelfAvoiding(positions) ==
  \A i, j \in 1..Len(positions) : i # j => positions[i] # positions[j]

\* C3: in the three search drivers, on a non-empty sequence, every candidate
\* held (population members and children of every generation; current,
\* neighbour, restart and best of every iteration) has positions without a
\* repeated coordinate, starting at (0,0), one per residue, and one move
\* less than residues.
C3_CandidatesSelfAvoiding ==
  \A c \in HeldCandidates(fold) :
    /\ SelfAvoiding(c.positions)
    /\ c.positions[1] = [x |-> 0, y |-> 0]
    /\ Len(c.positions) = Len(fold.sequence)
    /\ Len(c.moves) = Len(fold.sequence) - 1

\* a hill-climbing iteration with a restart whose mutated walk ran into
\* itself and was replaced before it became the neighbour
C3_Witness ==
  /\ fold.pc = "running" /\ fold.alg = "hill-climb"
  /\ fold.restart # <<>> /\ fold.neighbor # <<>>
  /\ ~tracePath(fold.proposal).valid

SameCall(a, b) ==
  a.alg = b.alg /\ a.sequence = b.sequence /\ a.params = b.params

\* C4: two invocations of the same entry point with the same sequence and
\* parameters return the same finalStructure, stabilityScore and step trace,
\* whatever ran before or between them.
C4_RepeatedCallsAgree ==
  \A i, j \in 1..Len(returned) :
    SameCall(returned[i], returned[j]) =>
      /\ returned[i].result.finalStructure = returned[j].result.finalStructure
      /\ returned[i].result.stabilityScore = returned[j].result.stabilityScore
      /\ returned[i].result.steps = returned[j].result.steps

\* a search run, another invocation, then the first one again
C4_Witness ==
  /\ Len(returned) = 3
  /\ SameCall(returned[1], returned[3])
  /\ ~SameCall(returned[1], returned[2])
  /\ returned[1].alg = "hill-climb"
  /\ returned[2].alg = "genetic"

MaxFitness(cands) ==
  CHOOSE m \in {c.fitness : c \in cands} : \A c \in cands : c.fitness <= m

SeenCandidates == UNION {{seen[g][k] : k \in 1..Len(seen[g])} : g \in 1..Len(seen)}

\* C9: in runGeneticFolding the tracked global-best fitness never decreases
\* from one generation to the next, and the returned stabilityScore is the
\* maximum fitness over the initial population and the population at the
\* end of every generation.
C9_GlobalBestMonotone ==
  /\ [][fold.pc = "running" /\ fold.alg = "genetic"
          => fold'.globalBest.fitness >= fold.globalBest.fitness]_vars
  /\ [](fold.pc = "done" /\ fold.alg = "genetic"
          => fold.result[1].stabilityScore = MaxFitness(SeenCandidates))

\* a finished run whose best was found in a generation, not in the initial
\* population
C9_Witness ==
  /\ fold.pc = "done" /\ fold.alg = "genetic"
  /\ fold.result[1].stabilityScore
       > MaxFitness({seen[1][k] : k \in 1..Len(seen[1])})

\* the steps of the iterations: after 'Initialization', before 'Final Selection'
HillTrace(f) ==
  LET steps == IF f.pc = "done" THEN f.result[1].steps ELSE f.steps
  IN [t \in 1..f.iter |-> steps[t + 1]]

\* C10: in the trace of runHillClimbingFolding the 'Best So Far' fitness
\* recorded at iteration t+1 is at least the one recorded at iteration t.
C10_BestSoFarMonotone ==
  fold.pc # "idle" /\ fold.alg = "hill-climb" =>
    \A t \in 1..(fold.iter - 1) :
      HillTrace(fold)[t + 1].bestSoFar >= HillTrace(fold)[t].bestSoFar

\* a returned trace in which 'Best So Far' rose between two iterations
C10_Witness ==
  /\ fold.pc = "done" /\ fold.alg = "hill-climb"
  /\ \E t \in 1..(fold.iter - 1) :
       HillTrace(fold)[t + 1].bestSoFar > HillTrace(fold)[t].bestSoFar

(***************************************************************************)
(* Properties of the local alignment and of the traceback paths            *)
(***************************************************************************)
\* the cells of the shown matrix, as (row, col) pairs
ShownCells ==
  {<<i, j>> : i \in 0..Len(sequences.seq1), j \in 0..Len(sequences.seq2)}

\* C11: under every scoring, a positive gap penalty or a negative match
\* score included, every cell of the matrix localAlignment returns has a
\* score of at least 0, and so has the returned score.
C11_LocalScoresNonNegative ==
  Shown("local") =>
    /\ \A c \in ShownCells : result.matrix[c[1]][c[2]].score >= 0
    /\ result.score >= 0

\* a local alignment under a negative match score in which a cell whose
\* three candidates are all negative was floored at 0
C11_Witness ==
  /\ Shown("local")
  /\ form.params.match < 0
  /\ \E k \in 1..Len(result.steps) :
       /\ \A c \in 1..3 : result.steps[k].cellsConsidered[c].value < 0
       /\ result.steps[k].score = 0

\* the concrete scenario: the initial form of the alignment page was submitted
\* with the global algorithm
DefaultGlobalShown ==
  /\ Shown("global")
  /\ sequences = [seq1 |-> DefaultForm.seq1, seq2 |-> DefaultForm.seq2]
  /\ form.params = DefaultForm.params

\* C12 as stated: globalAlignment("GCATGCG", "GATTACA", {match 1, mismatch -1,
\* gapPenalty -2}) returns score 0 and a traceback path of exactly 8 cells.
C12_DefaultScoreZero ==
  DefaultGlobalShown => result.score = 0 /\ Len(result.path) = 8

\* C12, amended: globalAlignment("GCATGCG", "GATTACA", {match 1, mismatch -1,
\* gapPenalty -2}) returns score -1 (three matches and four mismatches, no
\* gap) and a traceback path of exactly 8 cells, the origin included.
C12_DefaultScoreMinusOne ==
  DefaultGlobalShown => result.score = -1 /\ Len(result.path) = 8

\* the scenario was run and its alignment has seven gap-free columns
C12_Witness ==
  /\ DefaultGlobalShown
  /\ result.alignedSeq1 = DefaultForm.seq1
  /\ result.alignedSeq2 = DefaultForm.seq2

(***************************************************************************)
(* Properties of the local searches (hill climbing, simulated annealing)   *)
(***************************************************************************)
\* an iteration of the named driver has run; fold.base holds the conformation
\* that was mutated, fold.proposal the output of mutateMoves and
\* fold.neighbor the candidate evaluateCandidate returned
Iterated(alg) == fold.pc # "idle" /\ fold.alg = alg /\ fold.iter > 0

\* current after the iteration: the neighbour if it is at least as fit as
\* the conformation it was derived from, that conformation otherwise
KeptIfNotWorse ==
  fold.current = IF fold.neighbor[1].fitness >= fold.base[1].fitness
                 THEN fold.neighbor[1] ELSE fold.base[1]

C14_StopsAtLocalPeak ==
  Iterated("hill-climb") /\ fold.restart = <<>> =>
    ~LocalPeak(fold.sequence, fold.base[1])

\* C14, amended: runHillClimbingFolding never stops early; it runs exactly
\* `iterations` iterations whatever the neighbours' fitness, so its trace
\* has one entry per iteration between 'Initialization' and 'Final
\* Selection'.
C14_RunsAllIterations ==
  fold.pc # "idle" /\ fold.alg = "hill-climb" =>
    /\ fold.pc = "running" => Len(fold.steps) = fold.iter + 1
    /\ fold.pc = "done" =>
         /\ fold.iter = fold.params.iterations
         /\ Len(fold.result[1].steps) = fold.params.iterations + 2

\* a finished run of several iterations whose last neighbour was less fit
\* than current and was rejected, with one trace entry per iteration returned
C14_Witness ==
  /\ Iterated("hill-climb")
  /\ fold.pc = "done"
  /\ fold.params.iterations >= 2
  /\ fold.neighbor[1].fitness < fold.base[1].fitness
  /\ fold.current = fold.base[1]
  /\ Len(fold.result[1].steps) = fold.params.iterations + 2

(***************************************************************************)
(* Properties of the recorded directions and of the tracebacks             *)
(***************************************************************************)
\* the direction a candidate of a recorded step stands for
SourceDirection(source) ==
  CASE source = "diagonal" -> DIAGONAL
    [] source = "up" -> UP
    [] source = "left" -> LEFT
    [] OTHER -> NONE

\* the candidates of a step are listed in the order diagonal, up, left,
\* zero; the first one whose value is the step's score
FirstAttaining(step) ==
  LET hits == {c \in 1..Len(step.cellsConsidered) :
                 step.cellsConsidered[c].value = step.score}
  IN step.cellsConsidered[CHOOSE c \in hits : \A e \in hits : c <= e]

\* the steps of the shown result
ShownSteps == {result.steps[k] : k \in 1..Len(result.steps)}

\* C15 as stated: in every alignment variant the direction of a filled cell
\* is the highest-priority candidate, in the order Diagonal > Up > Left >
\* reset-to-zero, among those equal to the cell's score; so a local cell of
\* score 0 whose diagonal candidate is 0 records Diagonal.
C15_DirectionByPriority ==
  pc = "shown" =>
    \A step \in ShownSteps :
      step.direction = SourceDirection(FirstAttaining(step).source)

\* C15, amended: in global, banded and dovetail alignment the direction of
\* a filled cell is the highest-priority candidate, in the order Diagonal >
\* Up > Left, among those equal to the cell's score; in local alignment a
\* cell of score 0 records None whatever candidates equal 0, and a cell of
\* positive score follows the same order.
C15_DirectionByPriorityZeroFirst ==
  pc = "shown" =>
    \A step \in ShownSteps :
      step.direction = IF algorithm = "local" /\ step.score = 0 THEN NONE
                       ELSE SourceDirection(FirstAttaining(step).source)

\* a local alignment with a cell of score 0 whose diagonal candidate is 0,
\* recorded as None
C15_Witness ==
  /\ Shown("local")
  /\ \E step \in ShownSteps :
       /\ step.score = 0
       /\ step.cellsConsidered[1].value = 0
       /\ step.direction = NONE

\* an aligned row with its gap characters deleted
RemoveGaps(aligned) == SelectSeq(aligned, LAMBDA c : c # "-")

\* C16: for global, banded and dovetail alignment of sequences without '-',
\* alignedSeq1 and alignedSeq2 have equal length, no column holds '-' in
\* both rows, and deleting every '-' from alignedSeq1 (alignedSeq2) yields
\* seq1 (seq2).
C16_RowsSpellTheInputs ==
  pc = "shown" /\ algorithm \in {"global", "banded", "dovetail"} =>
    /\ Len(result.alignedSeq1) = Len(result.alignedSeq2)
    /\ \A k \in 1..Len(result.alignedSeq1) :
         ~(result.alignedSeq1[k] = "-" /\ result.alignedSeq2[k] = "-")
    /\ RemoveGaps(result.alignedSeq1) = sequences.seq1
    /\ RemoveGaps(result.alignedSeq2) = sequences.seq2

\* a dovetail alignment with gaps in both rows, one of them a trailing gap
\* of the last column
C16_Witness ==
  /\ Shown("dovetail")
  /\ \E k \in 1..Len(result.alignedSeq1) : result.alignedSeq1[k] = "-"
  /\ \E k \in 1..Len(result.alignedSeq2) : result.alignedSeq2[k] = "-"
  /\ result.alignedSeq1[Len(result.alignedSeq1)] = "-"

\* C17: the path of globalAlignment, and of bandedAlignment, starts at
\* (0,0) and ends at (m,n); each cell is reached from the one before it by
\* (+1,+1), (+1,0) or (0,+1), as the direction of the later cell says; and
\* the alignment has one column per path cell but the origin.
C17_PathFromOriginToCorner ==
  pc = "shown" /\ algorithm \in {"global", "banded"} =>
    /\ result.path[1] = [row |-> 0, col |-> 0]
    /\ result.path[Len(result.path)]
         = [row |-> Len(sequences.seq1), col |-> Len(sequences.seq2)]
    /\ \A k \in 1..(Len(result.path) - 1) :
         PathStepOk(result.matrix, result.path[k], result.path[k + 1])
    /\ Len(result.alignedSeq1) = Len(result.path) - 1
    /\ Len(result.alignedSeq2) = Len(result.path) - 1

\* a global alignment whose path takes a diagonal, an up and a left step
C17_Witness ==
  /\ Shown("global")
  /\ \A d \in {DIAGONAL, UP, LEFT} :
       \E k \in 2..Len(result.path) :
         result.matrix[result.path[k].row][result.path[k].col].direction = d

\* the largest score of the shown matrix
ShownMaxScore ==
  CHOOSE v \in {result.matrix[c[1]][c[2]].score : c \in ShownCells} :
    \A c \in ShownCells : result.matrix[c[1]][c[2]].score <= v

\* row-major order on cells
RowMajorLe(a, b) == a[1] < b[1] \/ (a[1] = b[1] /\ a[2] <= b[2])

\* the first cell, in row-major order, that holds the largest score
FirstMaxCell ==
  CHOOSE c \in ShownCells :
    /\ result.matrix[c[1]][c[2]].score = ShownMaxScore
    /\ \A e \in ShownCells :
         result.matrix[e[1]][e[2]].score = ShownMaxScore => RowMajorLe(c, e)

\* the cell the direction of a path cell points back to
Predecessor(cell) ==
  LET d == result.matrix[cell.row][cell.col].direction
  IN [row |-> IF d \in {DIAGONAL, UP} THEN cell.row - 1 ELSE cell.row,
      col |-> IF d \in {DIAGONAL, LEFT} THEN cell.col - 1 ELSE cell.col]

\* the traceback stops at this cell: a border cell or a cell of score 0
StopsAt(cell) ==
  cell.row = 0 \/ cell.col = 0 \/ result.matrix[cell.row][cell.col].score = 0

\* C18: localAlignment returns the largest score of the matrix and starts
\* its traceback at the first cell in row-major order that attains it; it
\* follows the recorded directions until a cell of score 0 or a border;
\* the path is exactly the walked cells, all of positive score, ending at
\* the start cell; and the aligned rows have one column per path cell.
C18_LocalPathFromFirstMax ==
  Shown("local") =>
    /\ result.score = ShownMaxScore
    /\ (result.path = <<>>) <=> (ShownMaxScore = 0)
    /\ result.path # <<>> =>
         /\ result.path[Len(result.path)]
              = [row |-> FirstMaxCell[1], col |-> FirstMaxCell[2]]
         /\ StopsAt(Predecessor(result.path[1]))
    /\ \A k \in 1..Len(result.path) :
         /\ result.matrix[result.path[k].row][result.path[k].col].score > 0
         /\ result.matrix[result.path[k].row][result.path[k].col].isOnPath
    /\ \A k \in 1..(Len(result.path) - 1) :
         PathStepOk(result.matrix, result.path[k], result.path[k + 1])
    /\ \A c \in ShownCells :
         result.matrix[c[1]][c[2]].isOnPath
           => \E k \in 1..Len(result.path) :
                result.path[k] = [row |-> c[1], col |-> c[2]]
    /\ Len(result.alignedSeq1) = Len(result.path)
    /\ Len(result.alignedSeq2) = Len(result.path)

\* a local alignment whose largest score is held by two cells and whose
\* walk of at least two cells stopped at an interior cell of score 0
C18_Witness ==
  /\ Shown("local")
  /\ Cardinality({c \in ShownCells :
                    result.matrix[c[1]][c[2]].score = ShownMaxScore}) >= 2
  /\ Len(result.path) >= 2
  /\ Predecessor(result.path[1]).row > 0
  /\ Predecessor(result.path[1]).col > 0

\* the cells of the last row and of the last column of the shown matrix
LastRowAndColumn ==
  {c \in ShownCells : c[1] = Len(sequences.seq1) \/ c[2] = Len(sequences.seq2)}

\* the corner cell (m,n)
Corner == <<Len(sequences.seq1), Len(sequences.seq2)>>

\* C19: the score dovetailAlignment returns is the largest score over all
\* cells of the last row and of the last column, and the best-end cell,
\* where the path ends, is (m,n) whenever (m,n) attains that score.
C19_BestEndIsBorderMax ==
  Shown("dovetail") =>
    /\ \A c \in LastRowAndColumn : result.matrix[c[1]][c[2]].score <= result.score
    /\ \E c \in LastRowAndColumn : result.matrix[c[1]][c[2]].score = result.score
    /\ result.matrix[Corner[1]][Corner[2]].score = result.score
         => result.path[Len(result.path)] = [row |-> Corner[1], col |-> Corner[2]]

\* a dovetail alignment whose positive best score is held both by the corner
\* and by another cell of the last row or column
C19_Witness ==
  /\ Shown("dovetail")
  /\ result.score > 0
  /\ result.matrix[Corner[1]][Corner[2]].score = result.score
  /\ \E c \in LastRowAndColumn \ {Corner} :
       result.matrix[c[1]][c[2]].score = result.score

\* C20: in every iteration of hill climbing and of simulated annealing the
\* moves of the evaluated neighbour differ from the moves of current in
\* exactly one position, as the trace's 'Moves Changed: 1' records.
C20_NeighbourDiffersInOneMove ==
  Iterated("hill-climb") \/ Iterated("simulated-annealing") =>
    Cardinality(DiffPositions(fold.neighbor[1].moves, fold.base[1].moves)) = 1

(***************************************************************************)
(* Properties of the genetic search, of annealing and of Chou-Fasman       *)
(***************************************************************************)
\* parents + offspring of the last generation: the population before it and
\* the children it bred
Combined == seen[fold.iter] \o fold.children

\* how often a candidate occurs in a list
Occurrences(cands, c) == Cardinality({k \in 1..Len(cands) : cands[k] = c})

\* the k-th member of a list is among its k fittest, ties allowed
RankedAt(cands, fitness, k) ==
  /\ Cardinality({i \in 1..Len(cands) : cands[i].fitness > fitness}) <= k - 1
  /\ Cardinality({i \in 1..Len(cands) : cands[i].fitness >= fitness}) >= k

CurrentFitnessAt(f, k) ==
  IF k = 1 THEN f.steps[1].fitness ELSE f.steps[k].currentFitness

\* the largest current fitness among the first n steps
RunningMax(f, n) ==
  CHOOSE v \in {CurrentFitnessAt(f, k) : k \in 1..n} :
    \A k \in 1..n : CurrentFitnessAt(f, k) <= v

\* C22: in runSimulatedAnnealingFolding, after every iteration the best
\* fitness is at least the current fitness and equals the largest fitness
\* of all current states held so far, so it never decreases when current
\* moves to a worse neighbour; the returned finalStructure and
\* stabilityScore are those of the best candidate, not of the final current.
C22_AnnealBestIsRunningMax ==
  fold.pc # "idle" /\ fold.alg = "simulated-annealing" =>
    /\ fold.best.fitness >= fold.current.fitness
    /\ fold.best.fitness = RunningMax(fold, fold.iter + 1)
    /\ \A k \in 2..(fold.iter + 1) : fold.steps[k].bestSoFar = RunningMax(fold, k)
    /\ fold.pc = "done" =>
         /\ fold.result[1].finalStructure = fold.best.moves
         /\ fold.result[1].stabilityScore = RunningMax(fold, fold.iter + 1)
         /\ tracePath(fold.result[1].finalStructure).valid
         /\ WalkFitness(fold.sequence, fold.result[1].finalStructure)
              = fold.result[1].stabilityScore

\* a returned annealing run that ended on a current state worse than the
\* best one
C22_Witness ==
  /\ fold.pc = "done" /\ fold.alg = "simulated-annealing"
  /\ fold.current.fitness < fold.best.fitness
  /\ fold.result[1].finalStructure # fold.current.moves

\* a Chou-Fasman result is held
ChouDone == fold.pc = "done" /\ fold.alg = "chou-fasman"

\* the window of the k-th residue, as its step records it
WindowAt(k) ==
  SubSeq(fold.sequence, fold.result[1].steps[k].window[1],
         fold.result[1].steps[k].window[2])

\* the averages of the k-th window, times the window length, in hundredths
HelixSumAt(k) == WindowSum(WindowAt(k), HELIX_PROPENSITY, 1)
SheetSumAt(k) == WindowSum(WindowAt(k), SHEET_PROPENSITY, 1)

\* the averages of the k-th window meet their thresholds
HelixMeets(k) == HelixSumAt(k) >= fold.params.helixThreshold * Len(WindowAt(k))
SheetMeets(k) == SheetSumAt(k) >= fold.params.sheetThreshold * Len(WindowAt(k))

\* C23 as stated: each residue is Helix when the helix average is at least
\* helixThreshold and at least the sheet average; otherwise Sheet when the
\* sheet average is at least sheetThreshold; Coil exactly when neither
\* average meets its threshold.
C23_SheetWheneverThresholdMet ==
  ChouDone =>
    \A k \in 1..Len(fold.sequence) :
      /\ fold.result[1].finalStructure[k]
           = IF HelixMeets(k) /\ HelixSumAt(k) >= SheetSumAt(k) THEN "H"
             ELSE IF SheetMeets(k) THEN "E" ELSE "C"
      /\ fold.result[1].finalStructure[k] = "C" <=> ~HelixMeets(k) /\ ~SheetMeets(k)

\* C23, amended: each residue is Helix when the helix average is at least
\* helixThreshold and at least the sheet average; otherwise Sheet when the
\* sheet average is at least sheetThreshold and strictly above the helix
\* average; Coil in every other case, which includes a sheet average that
\* meets its threshold under a helix average that misses its own.
C23_SheetOnlyWhenDominant ==
  ChouDone =>
    \A k \in 1..Len(fold.sequence) :
      /\ fold.result[1].finalStructure[k] = "H"
           <=> HelixMeets(k) /\ HelixSumAt(k) >= SheetSumAt(k)
      /\ fold.result[1].finalStructure[k] = "E"
           <=> /\ SheetMeets(k) /\ SheetSumAt(k) > HelixSumAt(k)
               /\ ~(HelixMeets(k) /\ HelixSumAt(k) >= SheetSumAt(k))
      /\ fold.result[1].finalStructure[k] \in {"H", "E", "C"}
      /\ fold.result[1].steps[k].decision = fold.result[1].finalStructure[k]

\* a residue marked Coil although its sheet average meets the threshold
C23_Witness ==
  /\ ChouDone
  /\ \E k \in 1..Len(fold.sequence) :
       /\ fold.result[1].finalStructure[k] = "C"
       /\ SheetMeets(k)
       /\ ~HelixMeets(k)

\* a hill-climbing iteration has just run
HillIterated ==
  /\ fold.pc = "running" /\ fold.alg = "hill-climb"
  /\ fold'.pc = "running" /\ fold'.alg = "hill-climb"
  /\ fold'.iter = fold.iter + 1

\* C24: in runHillClimbingFolding the fitness of current never decreases from
\* one iteration to the next, through the restart as well as through the
\* neighbour move, so the step of every iteration records a 'Current H-H
\* Contacts' equal to its 'Best So Far'.
C24_HillNeverDescends ==
  [][HillIterated =>
       /\ fold'.base[1].fitness >= fold.current.fitness
       /\ fold'.current.fitness >= fold'.base[1].fitness
       /\ fold'.current.fitness >= fold.current.fitness
       /\ fold'.current.fitness = fold'.best.fitness
       /\ \A k \in 2..Len(fold'.steps) :
            fold'.steps[k].currentFitness = fold'.steps[k].bestSoFar
       /\ fold'.steps[Len(fold'.steps)].currentFitness = fold'.current.fitness]_vars

\* an iteration whose restart was less fit than current and was dropped,
\* and whose neighbour was less fit as well
C24_Witness ==
  /\ fold.pc = "running" /\ fold.alg = "hill-climb" /\ fold.iter > 0
  /\ fold.restart # <<>>
  /\ fold.restart[1].fitness < fold.current.fitness
  /\ fold.neighbor[1].fitness < fold.current.fitness
  /\ fold.steps[Len(fold.steps)].currentFitness = fold.steps[Len(fold.steps)].bestSoFar

(***************************************************************************)
(* Properties of the band, of the generator and of the step trace          *)
(***************************************************************************)
\* the band of the alignment shown
ShownBand == EffectiveBandwidth(sequences.seq1, sequences.seq2, bandwidth)

\* the matrix globalAlignment fills for the sequences and scoring shown
GlobalOfShown == globalAlignment(sequences.seq1, sequences.seq2, form.params).matrix

\* C25: for non-empty sequences, every scoring and every bandwidth, each cell
\* of the bandedAlignment matrix inside the band holds a score that is at most
\* the score of the same cell of the globalAlignment matrix, so the banded
\* score is at most the global score.
C25_BandedAtMostGlobal ==
  Shown("banded") /\ sequences.seq1 # <<>> /\ sequences.seq2 # <<>> =>
    /\ \A c \in ShownCells :
         isInBand(c[1], c[2], ShownBand) =>
           /\ result.matrix[c[1]][c[2]].score # NegInf
           /\ result.matrix[c[1]][c[2]].score <= GlobalOfShown[c[1]][c[2]].score
    /\ result.score <= GlobalOfShown[Len(sequences.seq1)][Len(sequences.seq2)].score

\* a band that cuts the best global path: the banded score is strictly lower
C25_Witness ==
  /\ Shown("banded") /\ sequences.seq1 # <<>> /\ sequences.seq2 # <<>>
  /\ result.score < GlobalOfShown[Len(sequences.seq1)][Len(sequences.seq2)].score
  /\ \E c \in ShownCells : ~isInBand(c[1], c[2], ShownBand)

\* value / 0xffffffff < 1
DrawBelowOne(value) == value # [hi |-> B16 - 1, lo |-> B16 - 1]

\* C26: every value the generator of seededRandom returns lies in [0, 1), so
\* every index floor(rand() * n) of mutateMoves lies in 0..n-1: the list
\* mutateMoves returns has the length of its input and holds instructions
\* only.
C26_DrawsBelowOne ==
  fold.pc # "idle" /\ fold.alg \in {"hill-climb", "simulated-annealing"}
    /\ fold.iter > 0 =>
      /\ DrawBelowOne(fold.rng)
      /\ Len(fold.proposal) = Len(fold.base[1].moves)
      /\ \A k \in 1..Len(fold.proposal) : fold.proposal[k] \in SeqToSet(DIRECTIONS)

(***************************************************************************)
(* Properties of the step-by-step view                                     *)
(***************************************************************************)
\* C27: while the step-by-step view is open, whatever the clicks, slider
\* moves, auto-play ticks and new submissions, the currentStep of
\* StepVisualizer is an index of the steps it is given:
\* 0 <= currentStep <= steps.length - 1.
C27_StepIsAnIndex ==
  StepViewOpen(showStepVisualizer, result) =>
    visualizerStep \in 0..(Len(result.steps) - 1)

\* the cells AlignmentMatrix highlights, and the interior cells it shows
\* with their value
HighlightedCells ==
  {c \in InteriorCells(result.matrix) :
     isCurrentStep(result.matrix, currentStep, c[1], c[2])}
FilledInterior ==
  {c \in InteriorCells(result.matrix) :
     isCellFilled(result.matrix, currentStep, c[1], c[2])}

TracedCells ==
  {c \in {<<i, j>> : i \in 1..Len(sequences.seq1), j \in 1..Len(sequences.seq2)} :
     algorithm = "banded" => isInBand(c[1], c[2], ShownBand)}

\* step a lies before step b in row-major order
StepBefore(a, b) == a.row < b.row \/ (a.row = b.row /\ a.col < b.col)

\* C29: the trace of global, local and dovetail has |seq1| * |seq2| entries,
\* one per interior cell in strict row-major order, the banded trace one per
\* interior cell of the band in row-major order; score and direction of an
\* entry are those of the returned matrix cell at (row, col).
C29_TraceIsRowMajorFill ==
  pc = "shown" =>
    /\ algorithm # "banded" =>
         Len(result.steps) = Len(sequences.seq1) * Len(sequences.seq2)
    /\ Len(result.steps) = Cardinality(TracedCells)
    /\ \A k \in 1..Len(result.steps) :
         /\ <<result.steps[k].row, result.steps[k].col>> \in TracedCells
         /\ k < Len(result.steps) => StepBefore(result.steps[k], result.steps[k + 1])
         /\ result.steps[k].score
              = result.matrix[result.steps[k].row][result.steps[k].col].score
         /\ result.steps[k].direction
              = result.matrix[result.steps[k].row][result.steps[k].col].direction

\* a banded trace that leaves out cells, the last entry being the corner
C29_Witness ==
  /\ Shown("banded")
  /\ Len(result.steps) >= 3
  /\ Len(result.steps) < Len(sequences.seq1) * Len(sequences.seq2)
  /\ result.steps[Len(result.steps)].row = Len(sequences.seq1)
  /\ result.steps[Len(result.steps)].col = Len(sequences.seq2)
  /\ result.steps[Len(result.steps)].score = result.score

\* the heading after the first k moves: a left turn is three right turns
HeadingAfter(moves, k) ==
  (3 * Cardinality({m \in 1..k : moves[m] = "L"})
     + Cardinality({m \in 1..k : moves[m] = "R"})) % 4

\* how many of the first k steps go in direction o
StepsTowards(moves, k, o) == Cardinality({m \in 1..k : HeadingAfter(moves, m) = o})

\* the lattice points a move list visits, the origin first
PositionsOf(moves) ==
  [k \in 1..(Len(moves) + 1) |->
     [x |-> StepsTowards(moves, k - 1, 1) - StepsTowards(moves, k - 1, 3),
      y |-> StepsTowards(moves, k - 1, 0) - StepsTowards(moves, k - 1, 2)]]


\* generateValidMoves has returned
WalkDone == fold.pc = "done" /\ fold.alg = "generateValidMoves"

\* C30: generateValidMoves(length, rand) makes at most 20 attempts and
\* returns max(0, length - 1) moves that trace a self-avoiding walk: the walk
\* of the attempt that reached the end or, after 20 dead ends, the straight
\* line of Forward moves, whose fitness is 0.
C30_WalkOrStraightLine ==
  /\ fold.pc # "idle" /\ fold.alg = "generateValidMoves" => fold.attempt <= maxAttempts
  /\ WalkDone =>
       /\ Len(fold.result[1]) = Max2(0, fold.length - 1)
       /\ \A k \in 1..Len(fold.result[1]) : fold.result[1][k] \in SeqToSet(DIRECTIONS)
       /\ SelfAvoiding(PositionsOf(fold.result[1]))
       /\ fold.deadEnds <= maxAttempts
       /\ fold.deadEnds < maxAttempts /\ fold.length > 1 =>
            /\ fold.result[1] = fold.moves
            /\ fold.attempt = fold.deadEnds + 1
       /\ fold.deadEnds = maxAttempts =>
            /\ \A k \in 1..Len(fold.result[1]) : fold.result[1][k] = "F"
            /\ countHHContacts(fold.sequence, PositionsOf(fold.result[1])) = 0
       /\ fold.length <= MaxFoldLen =>
            /\ tracePath(fold.result[1]).valid
            /\ PositionsOf(fold.result[1]) = tracePath(fold.result[1]).positions
            /\ fold.result[1]
                 = generateValidMoves(fold.length, seededRandom(fold.sequence)).moves

\* all 20 attempts ran into a dead end and the straight line was returned
C30_Witness ==
  /\ WalkDone
  /\ fold.deadEnds = maxAttempts
  /\ fold.length > 9
  /\ Len(fold.result[1]) = fold.length - 1
  /\ fold.result[1] # fold.moves

====
